---- MODULE Spec2Model ----
(***************************************************************************)
(* Verification model of the schema-driven form engine (DynamicForm.tsx,   *)
(* DashboardView.tsx) and of the output rendering engine                   *)
(* (OutputRenderer.tsx, DynamicOutput in ExecutionDetailModal.tsx).        *)
(*                                                                         *)
(* JavaScript values are records of one shape so that values of different  *)
(* JavaScript types can be compared.  A string is a sequence of one-       *)
(* character strings (form side) or of lexical tokens (rendering side).    *)
(* An optional schema attribute is a set with at most one element: {} is   *)
(* `undefined`.                                                            *)
(***************************************************************************)
EXTENDS Integers, Sequences, FiniteSets, TLC

VARIABLES
    formPc,        \* "init" | "ready" | "crashed": DynamicForm before / after its first render
    dashFields,    \* dashboard.fields when the form is shown by DashboardView, else << >>
    schema,        \* the JSONSchema prop of DynamicForm
    zodSchema,     \* useMemo(() => jsonSchemaToZod(schema)): the compiled validator
    values,        \* react-hook-form field values, key -> JS value
    errors,        \* formState.errors, key -> set of at most one message
    isSubmitting,  \* formState.isSubmitting
    inFlight,      \* calls of onSubmit whose promise has not settled
    outcome,       \* what the last handleSubmit did with the current values
    submitted,     \* the data handed to onSubmit by that handleSubmit
    data,          \* the value given to OutputRenderer / DynamicOutput.renderValue
    hint,          \* the output-schema property of the value: a set of at most one
    plan,          \* the element the renderer returned
    regexState,    \* key -> lastIndex of the RegExp object held by the compiled validator
    call,          \* the latest call of the validator or of a renderer, with its result
    earlier,       \* a call made before it and kept for comparison
    api,           \* one call of apiFetch: its arguments, the response, how it settled
    builder,       \* the state of the DashboardBuilder page
    poll,          \* the execution query of the ExecutionDetail page
    list           \* the page, filters and query of an execution list

formVars == <<formPc, dashFields, schema, zodSchema, values, errors, isSubmitting, inFlight, outcome, submitted>>
renderVars == <<data, hint, plan>>
callVars == <<regexState, call, earlier>>
pageVars == <<api, builder, poll, list>>
vars == <<formVars, renderVars, callVars, pageVars>>

\* a component that is not on screen
Unused == [pc |-> "unused"]

(***************************************************************************)
(* JavaScript values                                                       *)
(***************************************************************************)
JsVal(t, n, half, s) == [t |-> t, n |-> n, half |-> half, s |-> s]
Undefined == JsVal("undefined", 0, FALSE, << >>)
Str(s) == JsVal("string", 0, FALSE, s)
\* the number n, or n + 0.5 when half
Num(n, half) == JsVal("number", n, half, << >>)
Bool(b) == JsVal("boolean", IF b THEN 1 ELSE 0, FALSE, << >>)
\* a FileList holding n files
FileList(n) == JsVal("filelist", n, FALSE, << >>)
\* a plain array of n elements
Arr(n) == JsVal("array", n, FALSE, << >>)

Letters == {"a", "b"}
Digits == {"1", "8", "9"}
Alnum == Letters \cup Digits

\* messages are a text and, where the text names a bound, the bound
Msg(text, arg) == [text |-> text, arg |-> arg]

(***************************************************************************)
(* JSON Schema of a form (DynamicForm.tsx)                                 *)
(***************************************************************************)
\* JSONSchemaProperty.  format, enum, the four bounds, pattern and default are
\* optional attributes.  description and accept do not reach validation.
Prop(type, format, enum, minimum, maximum, minLength, maxLength, pattern, default) ==
    [type |-> type, format |-> format, enum |-> enum, minimum |-> minimum,
     maximum |-> maximum, minLength |-> minLength, maxLength |-> maxLength,
     pattern |-> pattern, default |-> default]

\* JSONSchema: properties in Object.entries order, and the required array
JSONSchema(properties, required) == [properties |-> properties, required |-> required]

SchemaKeys(sch) == {sch.properties[i].key : i \in DOMAIN sch.properties}
PropOf(sch, k) == (CHOOSE e \in {sch.properties[i] : i \in DOMAIN sch.properties} : e.key = k).p

\* JavaScript truthiness of an optional number / of an optional string
TruthyNum(opt) == \E n \in opt : n # 0
TruthyStr(opt) == \E x \in opt : x # ""

(***************************************************************************)
(* Regular expressions: new RegExp(source) and RegExp.prototype.test       *)
(***************************************************************************)
WordPattern == "^[a-zA-Z0-9_]+$"
\* new RegExp("[") throws SyntaxError: unterminated character class
RegExpCompiles(source) == source # "["
RegExpTest(source, s) ==
    IF source = WordPattern
    THEN Len(s) >= 1 /\ \A i \in DOMAIN s : s[i] \in Alnum
    ELSE TRUE

\* an email check that lets every string through
IsEmail_AcceptAll(s) == TRUE

\* Zod's email pattern:
\* ^(?!\.)(?!.*\.\.)([A-Z0-9_'+\-\.]*)[A-Z0-9_+-]@([A-Z0-9][A-Z0-9\-]*\.)+[A-Z]{2,}$
IsEmail(s) ==
    /\ \A i \in 1..(Len(s) - 1) : ~(s[i] = "." /\ s[i + 1] = ".")
    /\ \E at \in DOMAIN s :
        /\ s[at] = "@"
        /\ at >= 2
        /\ s[1] # "."
        /\ s[at - 1] \in Alnum
        /\ \A i \in 1..(at - 1) : s[i] \in Alnum \cup {"."}
        /\ \E dot \in (at + 2)..(Len(s) - 2) :
            /\ s[dot] = "."
            /\ \A i \in (dot + 1)..Len(s) : s[i] \in Letters
            /\ s[at + 1] \in Alnum
            /\ \A i \in (at + 1)..(dot - 1) : s[i] \in Alnum \cup {"."}
            /\ \A i \in (at + 2)..(dot - 1) : s[i] = "." => s[i - 1] # "."

(***************************************************************************)
(* Zod types built by jsonSchemaToZod                                      *)
(***************************************************************************)
ZodCheck(kind, n, source, message) == [kind |-> kind, n |-> n, source |-> source, message |-> message]
ZodType(base, checks, options, optional) ==
    [base |-> base, checks |-> checks, options |-> options, optional |-> optional]
\* the type of a property whose construction threw
Thrown == ZodType("thrown", << >>, << >>, FALSE)

\* case 'string' without format email and without enum
ZodStringOf(property) ==
    ZodType("string",
        (IF TruthyNum(property.minLength)
         THEN LET n == CHOOSE n \in property.minLength : TRUE
              IN  <<ZodCheck("min", n, "", Msg("Minimum length is", {n}))>>
         ELSE << >>)
        \o
        (IF TruthyNum(property.maxLength)
         THEN LET n == CHOOSE n \in property.maxLength : TRUE
              IN  <<ZodCheck("max", n, "", Msg("Maximum length is", {n}))>>
         ELSE << >>)
        \o
        (IF TruthyStr(property.pattern)
         THEN LET src == CHOOSE x \in property.pattern : TRUE
              IN  <<ZodCheck("regex", 0, src, Msg("Invalid format", {}))>>
         ELSE << >>),
        << >>, FALSE)

\* case 'number' / 'integer'
ZodNumberOf(property) ==
    ZodType("number",
        (IF property.minimum # {}
         THEN LET n == CHOOSE n \in property.minimum : TRUE
              IN  <<ZodCheck("min", n, "", Msg("Minimum value is", {n}))>>
         ELSE << >>)
        \o
        (IF property.maximum # {}
         THEN LET n == CHOOSE n \in property.maximum : TRUE
              IN  <<ZodCheck("max", n, "", Msg("Maximum value is", {n}))>>
         ELSE << >>)
        \o
        (IF property.type = "integer"
         THEN <<ZodCheck("int", 0, "", Msg("Must be an integer", {}))>>
         ELSE << >>),
        << >>, FALSE)

\* the switch with a default branch that rejects the property
ZodBaseOf_RejectUnknown(property) ==
    CASE property.type = "string" ->
            IF property.format = {"email"}
            THEN ZodType("string", <<ZodCheck("email", 0, "", Msg("Invalid email address", {}))>>, << >>, FALSE)
            ELSE IF property.enum # {}
            THEN ZodType("enum", << >>, CHOOSE o \in property.enum : TRUE, FALSE)
            ELSE IF TruthyStr(property.pattern) /\ \E x \in property.pattern : ~RegExpCompiles(x)
            THEN Thrown
            ELSE ZodStringOf(property)
      [] property.type \in {"number", "integer"} -> ZodNumberOf(property)
      [] property.type = "boolean" -> ZodType("boolean", << >>, << >>, FALSE)
      [] property.type = "array" ->
            IF property.format = {"file"}
            THEN ZodType("instanceofFileList", << >>, << >>, TRUE)
            ELSE ZodType("array", << >>, << >>, FALSE)
      [] OTHER -> Thrown

\* the switch on property.type
ZodBaseOf(property) ==
    CASE property.type = "string" ->
            IF property.format = {"email"}
            THEN ZodType("string", <<ZodCheck("email", 0, "", Msg("Invalid email address", {}))>>, << >>, FALSE)
            ELSE IF property.enum # {}
            THEN ZodType("enum", << >>, CHOOSE o \in property.enum : TRUE, FALSE)
            ELSE IF TruthyStr(property.pattern) /\ \E x \in property.pattern : ~RegExpCompiles(x)
            THEN Thrown
            ELSE ZodStringOf(property)
      [] property.type \in {"number", "integer"} -> ZodNumberOf(property)
      [] property.type = "boolean" -> ZodType("boolean", << >>, << >>, FALSE)
      [] property.type = "array" ->
            IF property.format = {"file"}
            THEN ZodType("instanceofFileList", << >>, << >>, TRUE)
            ELSE ZodType("array", << >>, << >>, FALSE)
      [] OTHER -> ZodType("any", << >>, << >>, FALSE)

\* one iteration of the forEach: the type, made optional unless the key is required
ZodTypeOf(sch, key, property) ==
    LET zodType == ZodBaseOf(property)
    IN  IF zodType = Thrown \/ key \in sch.required
        THEN zodType
        ELSE [zodType EXCEPT !.optional = TRUE]

\* jsonSchemaToZod: z.object(shape), or the exception that escaped it
JsonSchemaToZod(sch) ==
    LET shape == [i \in DOMAIN sch.properties |->
                    [key |-> sch.properties[i].key,
                     zt |-> ZodTypeOf(sch, sch.properties[i].key, sch.properties[i].p)]]
    IN  IF \E i \in DOMAIN shape : shape[i].zt = Thrown
        THEN [status |-> "SyntaxError", shape |-> << >>]
        ELSE [status |-> "ok", shape |-> shape]

(***************************************************************************)
(* Zod parsing and the zodResolver of react-hook-form                      *)
(***************************************************************************)
\* Zod's name of the parsed type of a value (getParsedType)
ParsedType(v) == IF v.t = "filelist" THEN "object" ELSE v.t

\* does the value violate one check of a ZodString / ZodNumber
CheckViolated(c, v) ==
    CASE c.kind = "min" -> IF v.t = "string" THEN Len(v.s) < c.n ELSE v.n < c.n
      [] c.kind = "max" -> IF v.t = "string" THEN Len(v.s) > c.n
                           ELSE IF v.half THEN v.n >= c.n ELSE v.n > c.n
      [] c.kind = "regex" -> ~RegExpTest(c.source, v.s)
      [] c.kind = "email" -> ~IsEmail(v.s)
      [] c.kind = "int" -> v.half
      [] OTHER -> FALSE

\* the issues of every violated check, in the order the checks were added
RECURSIVE CheckIssues(_, _)
CheckIssues(checks, v) ==
    IF checks = << >> THEN << >>
    ELSE (IF CheckViolated(Head(checks), v) THEN <<Head(checks).message>> ELSE << >>)
         \o CheckIssues(Tail(checks), v)

\* the invalid_type issue of a base type
TypeIssue(zt, v) ==
    IF zt.base = "number"
    THEN IF v = Undefined THEN Msg("This field is required", {}) ELSE Msg("Must be a number", {})
    ELSE IF v = Undefined THEN Msg("Required", {})
    ELSE Msg("Expected " \o zt.base \o ", received " \o ParsedType(v), {})

\* zodType.safeParse(v): the issues, in order
ZodIssues(zt, v) ==
    IF zt.optional /\ v = Undefined THEN << >>
    ELSE CASE zt.base = "string" ->
                IF v.t # "string" THEN <<TypeIssue(zt, v)>> ELSE CheckIssues(zt.checks, v)
           [] zt.base = "number" ->
                IF v.t # "number" THEN <<TypeIssue(zt, v)>> ELSE CheckIssues(zt.checks, v)
           [] zt.base = "boolean" ->
                IF v.t # "boolean" THEN <<TypeIssue(zt, v)>> ELSE << >>
           [] zt.base = "enum" ->
                IF v.t # "string" THEN <<TypeIssue(zt, v)>>
                ELSE IF \E i \in DOMAIN zt.options : zt.options[i] = v.s THEN << >>
                ELSE <<Msg("Invalid enum value", {})>>
           [] zt.base = "instanceofFileList" ->
                IF v.t # "filelist" THEN <<Msg("Input not instance of FileList", {})>> ELSE << >>
           [] zt.base = "array" ->
                IF v.t # "array" THEN <<TypeIssue(zt, v)>> ELSE << >>
           [] OTHER -> << >>

ShapeKeys(zs) == {zs.shape[i].key : i \in DOMAIN zs.shape}
ShapeType(zs, k) == (CHOOSE e \in {zs.shape[i] : i \in DOMAIN zs.shape} : e.key = k).zt

\* zodResolver(zodSchema)(values): per key the first issue's message (criteriaMode
\* firstError), and the parsed data, in which a key whose value is undefined is
\* the same as an omitted key; keys outside the shape are stripped by z.object.
Resolver(zs, vals) ==
    [errors |-> [k \in ShapeKeys(zs) |->
                    LET issues == ZodIssues(ShapeType(zs, k), vals[k])
                    IN  IF issues = << >> THEN {} ELSE {issues[1]}],
     values |-> [k \in ShapeKeys(zs) |-> vals[k]]]

NoErrors(errs) == \A k \in DOMAIN errs : errs[k] = {}

\* onSubmitHandler: every FileList becomes an array of its files
ProcessedData(d) == [k \in DOMAIN d |-> IF d[k].t = "filelist" THEN Arr(d[k].n) ELSE d[k]]

(***************************************************************************)
(* DashboardView: the JSON Schema derived from the stored dashboard fields *)
(***************************************************************************)
DashboardField(name, type, required, options) ==
    [name |-> name, type |-> type, required |-> required, options |-> options]

\* acc[field.name] = {...}
FieldProperty(field) ==
    Prop(IF field.type = "number" THEN "number" ELSE "string",
         IF field.type = "email" THEN {"email"}
         ELSE IF field.type = "textarea" THEN {"textarea"} ELSE {},
         field.options, {}, {}, {}, {}, {}, {})

\* acc[key] = property on an object: a new key is appended, an existing key
\* keeps its place and takes the new value
AssignKey(properties, key, property) ==
    IF \E i \in DOMAIN properties : properties[i].key = key
    THEN [i \in DOMAIN properties |->
            IF properties[i].key = key THEN [key |-> key, p |-> property] ELSE properties[i]]
    ELSE Append(properties, [key |-> key, p |-> property])

RECURSIVE ReduceFields(_, _)
ReduceFields(acc, fields) ==
    IF fields = << >> THEN acc
    ELSE ReduceFields(AssignKey(acc, Head(fields).name, FieldProperty(Head(fields))), Tail(fields))

DeriveSchema(fields) ==
    JSONSchema(ReduceFields(<< >>, fields),
               {fields[i].name : i \in {j \in DOMAIN fields : fields[j].required}})

(***************************************************************************)
(* renderField: the control of a property and what its onChange delivers   *)
(***************************************************************************)
ControlOf(property) ==
    IF property.type = "boolean" THEN "checkbox"
    ELSE IF property.enum # {} THEN "select"
    ELSE IF property.format = {"email"} THEN "email"
    ELSE IF property.format = {"textarea"} THEN "textarea"
    ELSE IF property.type \in {"number", "integer"} THEN "number"
    ELSE IF property.format = {"file"} \/ property.type = "array" THEN "file"
    ELSE "text"

\* texts a user types or pastes: "", "a", "18", "abab", "a@b.ab"
TextSamples == {<< >>, <<"a">>, <<"1", "8">>, <<"a", "b", "a", "b">>, <<"a", "@", "b", ".", "a", "b">>}
\* numbers a user enters in a number input: -1, 17, 17.5, 18
NumberSamples == {Num(0 - 1, FALSE), Num(17, FALSE), Num(17, TRUE), Num(18, FALSE)}

\* the values field.onChange can receive from the control of a property
ControlInputs(property) ==
    LET c == ControlOf(property)
    IN  CASE c = "checkbox" -> {Bool(TRUE), Bool(FALSE)}
          [] c = "select" ->
                LET opts == CHOOSE o \in property.enum : TRUE
                IN  {Str(<< >>)} \cup {Str(opts[i]) : i \in DOMAIN opts}
          [] c = "file" -> {FileList(0), FileList(1)}
          [] c = "number" -> {Undefined} \cup NumberSamples
          [] OTHER -> {Str(t) : t \in TextSamples}

\* a control showing nothing: no text, no option, no file
IsEmpty(v) == v = Undefined \/ v = Str(<< >>) \/ v = FileList(0)

(***************************************************************************)
(* Forms shown in the model                                                *)
(***************************************************************************)
P(type) == Prop(type, {}, {}, {}, {}, {}, {}, {}, {})
Options == <<<<"a">>, <<"1", "8">>>>

PText == P("string")
PEmail == [P("string") EXCEPT !.format = {"email"}]
PAge == [P("integer") EXCEPT !.minimum = {18}]
PFile == [P("array") EXCEPT !.format = {"file"}]
PDefault == [P("string") EXCEPT !.default = {Str(<<"a">>)}]

\* properties of workflow input schemas (WorkflowExecute passes workflow.input_schema)
WorkflowProps ==
    { PText, PEmail, PAge, PFile, PDefault,
      [P("string") EXCEPT !.minLength = {2}, !.maxLength = {3}],
      [P("string") EXCEPT !.format = {"textarea"}, !.maxLength = {0}],
      [P("string") EXCEPT !.enum = {Options}],
      [P("number") EXCEPT !.minimum = {0}, !.maximum = {17}],
      P("boolean"),
      P("array"),
      P("object"),
      [P("number") EXCEPT !.enum = {Options}],
      [P("string") EXCEPT !.minimum = {18}],
      [P("boolean") EXCEPT !.pattern = {"["}],
      [P("string") EXCEPT !.pattern = {WordPattern}],
      [P("string") EXCEPT !.pattern = {"["}] }

\* properties combined in two-field schemas
PairProps == {PText, PEmail, PAge, PFile, PDefault}

WorkflowSchemas ==
    { JSONSchema(<<[key |-> "k1", p |-> p]>>, r) : p \in WorkflowProps, r \in SUBSET {"k1"} }
    \cup
    { JSONSchema(<<[key |-> "k1", p |-> pq[1]], [key |-> "k2", p |-> pq[2]]>>, r) :
        pq \in PairProps \X PairProps, r \in SUBSET {"k1", "k2"} }

\* fields stored with a dashboard (DashboardBuilder)
FieldTypes == {"text", "number", "email", "textarea", "select", "checkbox"}
DashFieldPool(name) ==
    { DashboardField(name, t, r, {}) : t \in FieldTypes, r \in BOOLEAN }
    \cup { DashboardField(name, "select", FALSE, {Options}),
           DashboardField(name, "number", FALSE, {Options}) }
DashPairPool(name) ==
    { DashboardField(name, "text", TRUE, {}), DashboardField(name, "number", FALSE, {}),
      DashboardField(name, "email", FALSE, {}), DashboardField(name, "select", TRUE, {Options}) }
DashboardFieldSeqs ==
    { <<f>> : f \in DashFieldPool("k1") }
    \cup { <<f, g>> : f \in DashPairPool("k1"), g \in DashPairPool("k1") \cup DashPairPool("k2") }

(***************************************************************************)
(* Output values (OutputRenderer.tsx, DynamicOutput)                       *)
(*                                                                         *)
(* A value is a record of one shape at every depth: fields are the entries *)
(* of an object in key order, items the elements of an array.  A string is *)
(* a sequence of tokens; a tag is one token.                               *)
(***************************************************************************)
RVal(t, n, s, fields, items) == [t |-> t, n |-> n, s |-> s, fields |-> fields, items |-> items]
RNull == RVal("null", 0, << >>, << >>, << >>)
RUndefined == RVal("undefined", 0, << >>, << >>, << >>)
RStr(s) == RVal("string", 0, s, << >>, << >>)
RNum(n) == RVal("number", n, << >>, << >>, << >>)
RBool(b) == RVal("boolean", IF b THEN 1 ELSE 0, << >>, << >>, << >>)
RObj(fields) == RVal("object", 0, << >>, fields, << >>)
RArr(items) == RVal("array", 0, << >>, << >>, items)
Entry(key, v) == [key |-> key, v |-> v]

ScriptOpen == "<script>"
ScriptClose == "</script>"
ImgOnerror == "<img src=x onerror=alert(1)>"
ImgClean == "<img src=\"x\">"
LongText == "x.repeat(150)"
ScriptUrl == "javascript:"
\* a bare less-than or greater-than sign, set off by a space so that it opens
\* or closes no tag whatever follows or precedes it
Lt == "< "
Gt == " >"
TagTokens == {"<b>", "</b>", ScriptOpen, ScriptClose, ImgOnerror, ImgClean}

\* String.prototype.length
TokLen(tok) == IF tok = LongText THEN 150 ELSE Len(tok)
RECURSIVE JsLength(_)
JsLength(s) == IF s = << >> THEN 0 ELSE TokLen(Head(s)) + JsLength(Tail(s))

\* data.includes('<'), data.includes('>')
IncludesLt(s) == \E i \in DOMAIN s : s[i] = Lt \/ s[i] \in TagTokens
IncludesGt(s) == \E i \in DOMAIN s : s[i] = Gt \/ s[i] \in TagTokens

\* the regular expressions /\.(jpg|jpeg|png|gif|webp|svg)$/i and
\* /\.(pdf|csv|xlsx|xls|doc|docx|zip)$/i
ToLower(tok) == IF tok = ".PNG" THEN ".png" ELSE IF tok = ".PDF" THEN ".pdf" ELSE tok
ImageSuffixes == {".jpg", ".jpeg", ".png", ".gif", ".webp", ".svg"}
FileSuffixes == {".pdf", ".csv", ".xlsx", ".xls", ".doc", ".docx", ".zip"}
EndsWithOneOf(s, suffixes) == s # << >> /\ ToLower(s[Len(s)]) \in suffixes

\* DOMPurify.sanitize with its default configuration: a script element goes
\* with its content, an event-handler attribute is removed from its tag, a
\* bare < or > is text and is serialized as an entity, allowed tags stay.
RECURSIVE SanitizeFrom(_, _)
SanitizeFrom(s, inScript) ==
    IF s = << >> THEN << >>
    ELSE LET h == Head(s)
         IN  IF inScript THEN SanitizeFrom(Tail(s), h # ScriptClose)
             ELSE CASE h = ScriptOpen -> SanitizeFrom(Tail(s), TRUE)
                    [] h = ScriptClose -> SanitizeFrom(Tail(s), FALSE)
                    [] h = ImgOnerror -> <<ImgClean>> \o SanitizeFrom(Tail(s), FALSE)
                    [] h = Lt -> <<"&lt; ">> \o SanitizeFrom(Tail(s), FALSE)
                    [] h = Gt -> <<" &gt;">> \o SanitizeFrom(Tail(s), FALSE)
                    [] OTHER -> <<h>> \o SanitizeFrom(Tail(s), FALSE)
Sanitize(s) == SanitizeFrom(s, FALSE)

\* typeof v === 'object'
TypeofObject(v) == v.t \in {"null", "object", "array"}

RECURSIVE JoinWith(_, _)
JoinWith(parts, sep) ==
    IF parts = << >> THEN << >>
    ELSE IF Len(parts) = 1 THEN parts[1]
    ELSE parts[1] \o <<sep>> \o JoinWith(Tail(parts), sep)

\* JSON.stringify escapes the double quotes of a string
JsonEscape(s) == [i \in DOMAIN s |-> IF s[i] = ImgClean THEN "<img src=\\\"x\\\">" ELSE s[i]]

\* JSON.stringify of a value inside a document (indentation is not modelled)
RECURSIVE JsonStringify(_)
JsonStringify(v) ==
    CASE v.t = "string" -> <<"\"">> \o JsonEscape(v.s) \o <<"\"">>
      [] v.t = "number" -> <<ToString(v.n)>>
      [] v.t = "boolean" -> IF v.n = 1 THEN <<"true">> ELSE <<"false">>
      [] v.t = "array" ->
            <<"[">> \o JoinWith([i \in DOMAIN v.items |-> JsonStringify(v.items[i])], ",") \o <<"]">>
      [] v.t = "object" ->
            <<"{">> \o JoinWith([i \in DOMAIN v.fields |->
                                    <<"\"" \o v.fields[i].key \o "\":">> \o JsonStringify(v.fields[i].v)], ",")
            \o <<"}">>
      [] OTHER -> <<"null">>

\* String(v)
RECURSIVE ToText(_)
ToText(v) ==
    CASE v.t = "string" -> v.s
      [] v.t = "number" -> <<ToString(v.n)>>
      [] v.t = "boolean" -> IF v.n = 1 THEN <<"true">> ELSE <<"false">>
      [] v.t = "null" -> <<"null">>
      [] v.t = "undefined" -> <<"undefined">>
      [] v.t = "array" -> JoinWith([i \in DOMAIN v.items |->
                                        IF v.items[i].t \in {"null", "undefined"} THEN << >>
                                        ELSE ToText(v.items[i])], ",")
      [] OTHER -> <<"[object Object]">>

\* typeof x === 'object' ? JSON.stringify(x) : String(x)
CellText(v) == IF TypeofObject(v) THEN JsonStringify(v) ELSE ToText(v)

\* Object.keys(v) of an object or an array
ObjectKeys(v) ==
    IF v.t = "array" THEN [i \in DOMAIN v.items |-> ToString(i - 1)]
    ELSE [i \in DOMAIN v.fields |-> v.fields[i].key]
\* v[key]
GetProp(v, key) ==
    IF v.t = "array"
    THEN IF \E i \in DOMAIN v.items : ToString(i - 1) = key
         THEN v.items[CHOOSE i \in DOMAIN v.items : ToString(i - 1) = key]
         ELSE RUndefined
    ELSE IF \E i \in DOMAIN v.fields : v.fields[i].key = key
         THEN v.fields[CHOOSE i \in DOMAIN v.fields : v.fields[i].key = key].v
         ELSE RUndefined

(***************************************************************************)
(* What a renderer returns: the element's kind and what it puts on each    *)
(* surface.  text is a React text child; html is dangerouslySetInnerHTML;  *)
(* href and src are attributes of <a> and <img>.                           *)
(***************************************************************************)
NoPlan == [kind |-> "none", text |-> << >>, html |-> << >>, href |-> << >>, src |-> << >>,
           columns |-> << >>, rows |-> << >>, items |-> << >>]
TypeErrorPlan == [NoPlan EXCEPT !.kind = "TypeError"]

\* the markup branch with the raw string as __html
MarkupPlan_Raw(d) == [NoPlan EXCEPT !.kind = "markup", !.html = d.s]

\* the markup branch: __html is DOMPurify.sanitize(data)
MarkupPlan(d) == [NoPlan EXCEPT !.kind = "markup", !.html = Sanitize(d.s)]

\* the table branch; Object.keys(null) and null[key] throw TypeError
TablePlan(d) ==
    IF d.items[1].t = "null" THEN TypeErrorPlan
    ELSE LET keys == ObjectKeys(d.items[1])
         IN  IF keys # << >> /\ \E i \in DOMAIN d.items : d.items[i].t \in {"null", "undefined"}
             THEN TypeErrorPlan
             ELSE
             [NoPlan EXCEPT !.kind = "table", !.columns = [j \in DOMAIN keys |-> <<keys[j]>>],
                !.rows = [i \in DOMAIN d.items |->
                            [j \in DOMAIN keys |-> CellText(GetProp(d.items[i], keys[j]))]]]

\* number.toLocaleString(): the digits (grouping is not modelled)
LocaleNumber(n) == <<ToString(n)>>

\* OutputRenderer with the markup test moved before the image and file tests
OutputRenderer_MarkupFirst(d) ==
    IF d.t \in {"null", "undefined"} THEN [NoPlan EXCEPT !.kind = "null", !.text = <<"No output">>]
    ELSE IF d.t = "string" /\ IncludesLt(d.s) /\ IncludesGt(d.s) THEN MarkupPlan(d)
    ELSE IF d.t = "string" /\ EndsWithOneOf(d.s, ImageSuffixes)
    THEN [NoPlan EXCEPT !.kind = "image", !.src = d.s]
    ELSE IF d.t = "string" /\ EndsWithOneOf(d.s, FileSuffixes)
    THEN [NoPlan EXCEPT !.kind = "file-download", !.href = d.s, !.text = <<"Download File">>]
    ELSE IF d.t = "array" /\ Len(d.items) > 0 /\ TypeofObject(d.items[1]) THEN TablePlan(d)
    ELSE IF d.t = "array"
    THEN [NoPlan EXCEPT !.kind = "list", !.items = [i \in DOMAIN d.items |-> CellText(d.items[i])]]
    ELSE IF d.t = "boolean"
    THEN [NoPlan EXCEPT !.kind = "boolean", !.text = IF d.n = 1 THEN <<"True">> ELSE <<"False">>]
    ELSE IF d.t = "number" THEN [NoPlan EXCEPT !.kind = "number", !.text = LocaleNumber(d.n)]
    ELSE IF d.t = "string" THEN [NoPlan EXCEPT !.kind = "plain-text", !.text = d.s]
    ELSE [NoPlan EXCEPT !.kind = "json", !.text = JsonStringify(d)]

\* OutputRenderer({data})
OutputRenderer(d) ==
    IF d.t \in {"null", "undefined"} THEN [NoPlan EXCEPT !.kind = "null", !.text = <<"No output">>]
    ELSE IF d.t = "string" /\ EndsWithOneOf(d.s, ImageSuffixes)
    THEN [NoPlan EXCEPT !.kind = "image", !.src = d.s]
    ELSE IF d.t = "string" /\ EndsWithOneOf(d.s, FileSuffixes)
    THEN [NoPlan EXCEPT !.kind = "file-download", !.href = d.s, !.text = <<"Download File">>]
    ELSE IF d.t = "string" /\ IncludesLt(d.s) /\ IncludesGt(d.s) THEN MarkupPlan(d)
    ELSE IF d.t = "array" /\ Len(d.items) > 0 /\ TypeofObject(d.items[1]) THEN TablePlan(d)
    ELSE IF d.t = "array"
    THEN [NoPlan EXCEPT !.kind = "list", !.items = [i \in DOMAIN d.items |-> CellText(d.items[i])]]
    ELSE IF d.t = "boolean"
    THEN [NoPlan EXCEPT !.kind = "boolean", !.text = IF d.n = 1 THEN <<"True">> ELSE <<"False">>]
    ELSE IF d.t = "number" THEN [NoPlan EXCEPT !.kind = "number", !.text = LocaleNumber(d.n)]
    ELSE IF d.t = "string" THEN [NoPlan EXCEPT !.kind = "plain-text", !.text = d.s]
    ELSE [NoPlan EXCEPT !.kind = "json", !.text = JsonStringify(d)]

(***************************************************************************)
(* DynamicOutput.renderValue(key, property, value)                         *)
(***************************************************************************)
\* a property of an output schema
Hint(type, format, contentMediaType) == [type |-> type, format |-> format, contentMediaType |-> contentMediaType]

\* JavaScript truthiness of a value
Truthy(v) ==
    CASE v.t \in {"null", "undefined"} -> FALSE
      [] v.t \in {"boolean", "number"} -> v.n # 0
      [] v.t = "string" -> v.s # << >>
      [] OTHER -> TRUE

\* {value} as a React child: a plain object is rejected by React, an array
\* is rendered element by element, a boolean renders nothing
RECURSIVE ChildThrows(_)
ChildThrows(v) ==
    \/ v.t = "object"
    \/ v.t = "array" /\ \E i \in DOMAIN v.items : ChildThrows(v.items[i])
RECURSIVE ChildText(_)
ChildText(v) ==
    CASE v.t = "string" -> v.s
      [] v.t = "number" -> <<ToString(v.n)>>
      [] v.t = "array" ->
            IF v.items = << >> THEN << >>
            ELSE ChildText(v.items[1]) \o ChildText(RArr(Tail(v.items)))
      [] OTHER -> << >>
ReactErrorPlan == [NoPlan EXCEPT !.kind = "Error"]

DataUrlImage == "data:image/png;base64,"
DataUrlHtml == "data:text/html,"
\* value.startsWith('data:') and the media type matched by /data:([^;]+)/
StartsWithData(s) == s # << >> /\ s[1] \in {DataUrlImage, DataUrlHtml}
MimeOf(s) == IF s[1] = DataUrlImage THEN "image/png" ELSE "text/html,"

IsoDate == "2024-01-01T00:00:00"
\* new Date(value).toLocaleString(), in the en-US locale and in UTC
DateText(v) ==
    IF v.t = "string" /\ v.s = <<IsoDate>> THEN <<"1/1/2024, 12:00:00 AM">>
    ELSE IF v.t \in {"number", "boolean"} THEN <<"1/1/1970, 12:00:00 AM">>
    ELSE <<"Invalid Date">>

\* renderValue with the boolean test moved before the null test
RenderValue_BooleanFirst(property, value) ==
    IF property.type = "boolean"
    THEN [NoPlan EXCEPT !.kind = "boolean", !.text = IF Truthy(value) THEN <<"Yes">> ELSE <<"No">>]
    ELSE IF value.t \in {"null", "undefined"} THEN [NoPlan EXCEPT !.kind = "null", !.text = <<"null">>]
    ELSE IF property.format = {"data-url"} \/ property.contentMediaType # {}
    THEN IF value.t = "string" /\ StartsWithData(value.s)
         THEN [NoPlan EXCEPT !.kind = "file", !.text = <<"File uploaded", "Type: " \o MimeOf(value.s)>>,
                !.src = IF MimeOf(value.s) = "image/png" THEN value.s ELSE << >>]
         ELSE [NoPlan EXCEPT !.kind = "plain-text", !.text = ToText(value)]
    ELSE IF property.format \in {{"uri"}, {"url"}}
    THEN IF ChildThrows(value) THEN ReactErrorPlan
         ELSE [NoPlan EXCEPT !.kind = "link", !.href = ToText(value), !.text = ChildText(value)]
    ELSE IF property.format = {"email"}
    THEN IF ChildThrows(value) THEN ReactErrorPlan
         ELSE [NoPlan EXCEPT !.kind = "email-link", !.href = <<"mailto:">> \o ToText(value),
                !.text = ChildText(value)]
    ELSE IF property.format \in {{"date"}, {"date-time"}}
    THEN [NoPlan EXCEPT !.kind = "date", !.text = DateText(value)]
    ELSE IF property.type \in {"number", "integer"}
    THEN IF value.t = "number" THEN [NoPlan EXCEPT !.kind = "number", !.text = LocaleNumber(value.n)]
         ELSE IF ChildThrows(value) THEN ReactErrorPlan
         ELSE [NoPlan EXCEPT !.kind = "number", !.text = ChildText(value)]
    ELSE IF property.type = "array" /\ value.t = "array"
    THEN [NoPlan EXCEPT !.kind = "list", !.items = [i \in DOMAIN value.items |-> CellText(value.items[i])]]
    ELSE IF property.type = "object" /\ TypeofObject(value)
    THEN [NoPlan EXCEPT !.kind = "json", !.text = JsonStringify(value)]
    ELSE IF value.t = "string" /\ JsLength(value.s) > 100
    THEN [NoPlan EXCEPT !.kind = "long-text", !.text = value.s]
    ELSE [NoPlan EXCEPT !.kind = "plain-text", !.text = ToText(value)]

RenderValue(property, value) ==
    IF value.t \in {"null", "undefined"} THEN [NoPlan EXCEPT !.kind = "null", !.text = <<"null">>]
    ELSE IF property.type = "boolean"
    THEN [NoPlan EXCEPT !.kind = "boolean", !.text = IF Truthy(value) THEN <<"Yes">> ELSE <<"No">>]
    ELSE IF property.format = {"data-url"} \/ property.contentMediaType # {}
    THEN IF value.t = "string" /\ StartsWithData(value.s)
         THEN [NoPlan EXCEPT !.kind = "file", !.text = <<"File uploaded", "Type: " \o MimeOf(value.s)>>,
                !.src = IF MimeOf(value.s) = "image/png" THEN value.s ELSE << >>]
         ELSE [NoPlan EXCEPT !.kind = "plain-text", !.text = ToText(value)]
    ELSE IF property.format \in {{"uri"}, {"url"}}
    THEN IF ChildThrows(value) THEN ReactErrorPlan
         ELSE [NoPlan EXCEPT !.kind = "link", !.href = ToText(value), !.text = ChildText(value)]
    ELSE IF property.format = {"email"}
    THEN IF ChildThrows(value) THEN ReactErrorPlan
         ELSE [NoPlan EXCEPT !.kind = "email-link", !.href = <<"mailto:">> \o ToText(value),
                !.text = ChildText(value)]
    ELSE IF property.format \in {{"date"}, {"date-time"}}
    THEN [NoPlan EXCEPT !.kind = "date", !.text = DateText(value)]
    ELSE IF property.type \in {"number", "integer"}
    THEN IF value.t = "number" THEN [NoPlan EXCEPT !.kind = "number", !.text = LocaleNumber(value.n)]
         ELSE IF ChildThrows(value) THEN ReactErrorPlan
         ELSE [NoPlan EXCEPT !.kind = "number", !.text = ChildText(value)]
    ELSE IF property.type = "array" /\ value.t = "array"
    THEN [NoPlan EXCEPT !.kind = "list", !.items = [i \in DOMAIN value.items |-> CellText(value.items[i])]]
    ELSE IF property.type = "object" /\ TypeofObject(value)
    THEN [NoPlan EXCEPT !.kind = "json", !.text = JsonStringify(value)]
    ELSE IF value.t = "string" /\ JsLength(value.s) > 100
    THEN [NoPlan EXCEPT !.kind = "long-text", !.text = value.s]
    ELSE [NoPlan EXCEPT !.kind = "plain-text", !.text = ToText(value)]

(***************************************************************************)
(* Values and output schemas shown in the model                            *)
(***************************************************************************)
MaxTokens == 3
RenderTokens == {"x", Lt, Gt, "<b>", ScriptOpen, ScriptClose, ImgOnerror, ".png", ".pdf", ScriptUrl}
TokenStrings == UNION {[1..n -> RenderTokens] : n \in 0..MaxTokens}

OtherStrings ==
    { <<"x", ".PNG">>, <<"x", ".PDF">>, <<LongText>>, <<IsoDate>>, <<"a", "@", "b", ".", "com">>,
      <<DataUrlImage, "x">>, <<DataUrlHtml, ScriptOpen, "alert(1)", ScriptClose>>,
      <<"<b>", "x", "</b>">>, <<ScriptOpen, "alert(1)", ScriptClose, "<b>", "x", "</b>">> }

Row(id, name) == RObj(<<Entry("id", RNum(id)), Entry("name", RStr(<<name>>))>>)
StructuredValues ==
    { RNull, RUndefined, RBool(TRUE), RBool(FALSE), RNum(0), RNum(1), RNum(42),
      RArr(<< >>), RArr(<<RNum(1), RNum(2)>>), RArr(<<RStr(<<"x">>), RStr(<<ScriptOpen, "x", ScriptClose>>)>>),
      RArr(<<RNull>>), RArr(<<RObj(<<Entry("a", RNum(1))>>), RNull>>),
      RArr(<<Row(1, "a"), Row(2, "b")>>),
      RArr(<<RObj(<<Entry("a", RNum(1))>>), RObj(<<Entry("b", RNum(2))>>)>>),
      RArr(<<RArr(<<RNum(1)>>), RArr(<<RNum(2)>>)>>),
      RObj(<<Entry("a", RNum(1))>>), RObj(<<Entry("a", RNull)>>),
      RObj(<<Entry("a", RStr(<<ImgOnerror>>))>>) }

OutputValues == {RStr(s) : s \in TokenStrings \cup OtherStrings} \cup StructuredValues

Hints ==
    { Hint("string", {}, {}), Hint("boolean", {}, {}), Hint("number", {}, {}), Hint("array", {}, {}),
      Hint("object", {}, {}), Hint("string", {"email"}, {}), Hint("string", {"uri"}, {}),
      Hint("string", {"date"}, {}), Hint("string", {"date-time"}, {}), Hint("string", {"data-url"}, {}),
      Hint("string", {}, {"image/png"}) }

(***************************************************************************)
(* DynamicForm as a state machine                                          *)
(***************************************************************************)
NotCompiled == [status |-> "none", shape |-> << >>]
\* no call made yet
NoCall == [fn |-> "none", vals |-> << >>, d |-> RUndefined, h |-> {}, errors |-> << >>, plan |-> NoPlan]
Blank(sch) == [k \in SchemaKeys(sch) |-> Undefined]
NoErrorsOf(sch) == [k \in SchemaKeys(sch) |-> {}]

\* a form about to be rendered, by WorkflowExecute or by DashboardView
InitForm ==
    /\ formPc = "init"
    /\ \/ dashFields = << >> /\ schema \in WorkflowSchemas
       \/ dashFields \in DashboardFieldSeqs /\ schema = DeriveSchema(dashFields)
    /\ zodSchema = NotCompiled
    /\ values = Blank(schema)
    /\ errors = NoErrorsOf(schema)
    /\ isSubmitting = FALSE
    /\ inFlight = 0
    /\ outcome = "idle"
    /\ submitted = Blank(schema)
    /\ data = RUndefined
    /\ hint = {}
    /\ plan = NoPlan
    /\ regexState = << >>
    /\ call = NoCall
    /\ earlier = NoCall
    /\ api = Unused
    /\ builder = Unused
    /\ poll = Unused
    /\ list = Unused

\* isLoading={executeMutation.isPending}: the mutation is pending while a
\* promise of onSubmit, which awaits it, is
isLoading == inFlight > 0
\* a submit button that is never disabled
SubmitDisabled_Never == FALSE
\* <button type="submit" disabled={isLoading || isSubmitting}>
SubmitDisabled == isLoading \/ isSubmitting
\* disabled={isLoading || isSubmitting} of every control
InputDisabled == isLoading \/ isSubmitting
\* submissions in flight counted by the model
MaxInFlight == 2

\* first render: useMemo compiles the schema, useForm starts from defaultValues = {}
Mount ==
    /\ formPc = "init"
    /\ zodSchema' = JsonSchemaToZod(schema)
    /\ formPc' = IF zodSchema'.status = "ok" THEN "ready" ELSE "crashed"
    /\ regexState' = [k \in SchemaKeys(schema) |-> 0]
    /\ UNCHANGED <<dashFields, schema, values, errors, isSubmitting, inFlight, outcome, submitted>>
    /\ UNCHANGED renderVars
    /\ UNCHANGED <<call, earlier>>
    /\ UNCHANGED pageVars

\* field.onChange(v) of the control of key k; mode 'onChange' re-validates and
\* updates the error of the changed field
Change(k, v) ==
    /\ formPc = "ready"
    /\ ~InputDisabled
    /\ v # values[k]
    /\ ~(values[k] = Undefined /\ IsEmpty(v))
    /\ values' = [values EXCEPT ![k] = v]
    /\ errors' = [errors EXCEPT ![k] = Resolver(zodSchema, values').errors[k]]
    /\ outcome' = "idle"
    /\ submitted' = Blank(schema)
    /\ UNCHANGED <<formPc, dashFields, schema, zodSchema, isSubmitting, inFlight>>
    /\ UNCHANGED renderVars
    /\ UNCHANGED callVars
    /\ UNCHANGED pageVars

\* handleSubmit(onSubmitHandler) when the resolver reports errors
SubmitInvalid ==
    /\ formPc = "ready"
    /\ ~SubmitDisabled
    /\ ~NoErrors(Resolver(zodSchema, values).errors)
    /\ errors' = Resolver(zodSchema, values).errors
    /\ outcome' = "invalid"
    /\ submitted' = Blank(schema)
    /\ UNCHANGED <<formPc, dashFields, schema, zodSchema, values, isSubmitting, inFlight>>
    /\ UNCHANGED renderVars
    /\ UNCHANGED callVars
    /\ UNCHANGED pageVars

\* handleSubmit(onSubmitHandler) when the resolver reports none: onSubmit is
\* called with the processed data and awaited
SubmitValid ==
    /\ formPc = "ready"
    /\ ~SubmitDisabled
    /\ inFlight < MaxInFlight
    /\ NoErrors(Resolver(zodSchema, values).errors)
    /\ errors' = Resolver(zodSchema, values).errors
    /\ outcome' = "invoked"
    /\ submitted' = ProcessedData(Resolver(zodSchema, values).values)
    /\ isSubmitting' = TRUE
    /\ inFlight' = inFlight + 1
    /\ UNCHANGED <<formPc, dashFields, schema, zodSchema, values>>
    /\ UNCHANGED renderVars
    /\ UNCHANGED callVars
    /\ UNCHANGED pageVars

\* the promise returned by onSubmit settles
Settle ==
    /\ inFlight > 0
    /\ isSubmitting' = FALSE
    /\ inFlight' = inFlight - 1
    /\ UNCHANGED <<formPc, dashFields, schema, zodSchema, values, errors, outcome, submitted>>
    /\ UNCHANGED renderVars
    /\ UNCHANGED callVars
    /\ UNCHANGED pageVars

ChangeAny == \E k \in SchemaKeys(schema) : \E v \in ControlInputs(PropOf(schema, k)) : Change(k, v)

NextForm == Mount \/ ChangeAny \/ SubmitInvalid \/ SubmitValid \/ Settle

SpecForm == InitForm /\ [][NextForm]_vars

(***************************************************************************)
(* Vocabulary of the properties                                            *)
(***************************************************************************)
Keys == SchemaKeys(schema)
\* the kind of a field as the validator treats it
KindOf(property) ==
    CASE property.type = "string" /\ property.format = {"email"} -> "email"
      [] property.type = "string" /\ property.format # {"email"} /\ property.enum # {} -> "enum"
      [] property.type = "string" /\ property.format = {"textarea"} /\ property.enum = {} -> "long-text"
      [] property.type = "string" /\ property.format \notin {{"email"}, {"textarea"}} /\ property.enum = {} -> "string"
      [] property.type \in {"number", "integer", "boolean"} -> property.type
      [] property.type = "array" /\ property.format = {"file"} -> "file"
      [] property.type = "array" /\ property.format # {"file"} -> "array"
      [] OTHER -> "unknown"
Required(k) == k \in schema.required
\* handleSubmit has run on the values now in the form
Submitted == formPc = "ready" /\ outcome # "idle"
Present(v) == v # Undefined

\* C3 (as claimed): when several required fields are absent at submission,
\* every one of them has a field error.
C3_EveryMissingRequiredReported ==
    Submitted =>
        LET missing == {k \in Keys : Required(k) /\ values[k] = Undefined}
        IN  Cardinality(missing) >= 2 => \A k \in missing : errors[k] # {}

\* C4 (as claimed): a required text-like field (string, long-text, email, enum)
\* submitted empty, untouched or cleared, has a field error and onSubmit is
\* not called.
C4_RequiredTextEmptyRejected ==
    Submitted =>
        \A k \in Keys :
            (Required(k) /\ KindOf(PropOf(schema, k)) \in {"string", "long-text", "email", "enum"}
                /\ IsEmpty(values[k]))
            => (errors[k] # {} /\ outcome # "invoked")

\* C5 (as claimed): a required file field submitted with no file selected has
\* a field error and onSubmit is not called.
C5_RequiredFileRejected ==
    Submitted =>
        \A k \in Keys :
            (Required(k) /\ KindOf(PropOf(schema, k)) = "file" /\ IsEmpty(values[k]))
            => (errors[k] # {} /\ outcome # "invoked")

\* C6 (as claimed): the data of a valid submission holds every present value,
\* the declared default of every absent optional key that declares one, and
\* nothing for the other absent keys.
C6_ValidSubmissionData ==
    (formPc = "ready" /\ outcome = "invoked") =>
        /\ NoErrors(errors)
        /\ DOMAIN submitted = Keys
        /\ \A k \in Keys :
            LET p == PropOf(schema, k)
            IN  IF Present(values[k]) THEN Present(submitted[k])
                ELSE IF ~Required(k) /\ p.default # {} THEN submitted[k] \in p.default
                ELSE submitted[k] = Undefined

HasDuplicateKey == \E i, j \in DOMAIN dashFields : i < j /\ dashFields[i].name = dashFields[j].name
HasUnknownKind == \E k \in Keys : KindOf(PropOf(schema, k)) = "unknown"
\* a pattern that new RegExp rejects, on a field whose pattern is compiled
BadPattern(property) ==
    /\ KindOf(property) \in {"string", "long-text"}
    /\ \E x \in property.pattern : x # "" /\ ~RegExpCompiles(x)
\* the last field of the dashboard with the given name
LastNamed(k) ==
    dashFields[CHOOSE i \in DOMAIN dashFields :
        /\ dashFields[i].name = k
        /\ \A j \in DOMAIN dashFields : dashFields[j].name = k => j <= i]

BoundMessages(property, v) ==
    (IF property.type \in {"number", "integer"} /\ v.t = "number"
     THEN {Msg("Minimum value is", {m}) : m \in {b \in property.minimum : v.n < b}}
          \cup {Msg("Maximum value is", {m}) :
                    m \in {b \in property.maximum : IF v.half THEN v.n >= b ELSE v.n > b}}
     ELSE {})
    \cup
    (IF KindOf(property) \in {"string", "long-text"} /\ v.t = "string"
     THEN {Msg("Minimum length is", {m}) : m \in {b \in property.minLength : Len(v.s) < b}}
          \cup {Msg("Maximum length is", {m}) : m \in {b \in property.maxLength : Len(v.s) > b}}
     ELSE {})

\* C8 (as claimed): a present value that violates a declared bound, whatever
\* the bound's value, has exactly one field error, whose message names that
\* bound.
C8_BoundViolationNamed ==
    formPc = "ready" =>
        \A k \in Keys :
            Present(values[k]) =>
                \A m \in BoundMessages(PropOf(schema, k), values[k]) : errors[k] = {m}

\* C9 (as claimed): an optional text, email, select or number control left
\* empty has no error at submission and its key is omitted from the data.
C9_OptionalEmptyAccepted ==
    Submitted =>
        \A k \in Keys :
            (~Required(k) /\ IsEmpty(values[k])
                /\ ControlOf(PropOf(schema, k)) \in {"text", "textarea", "email", "select", "number"})
            => (errors[k] = {} /\ (outcome = "invoked" => submitted[k] = Undefined))

\* a constraint that has no meaning for the type of the property
HasInapplicable(property) ==
    \/ /\ property.type \in {"number", "integer"}
       /\ (property.enum # {} \/ property.minLength # {} \/ property.maxLength # {} \/ property.pattern # {})
    \/ /\ property.type = "string"
       /\ (property.minimum # {} \/ property.maximum # {})
    \/ /\ property.type = "boolean"
       /\ (property.enum # {} \/ property.pattern # {} \/ property.minimum # {} \/ property.maximum # {}
            \/ property.minLength # {} \/ property.maxLength # {})
\* the value denotes a value of the property's type
ValidForKind(property, v) ==
    CASE property.type \in {"number", "integer"} ->
            \/ v.t = "number" /\ (property.type = "integer" => ~v.half)
            \/ v.t = "string" /\ v.s # << >> /\ \A i \in DOMAIN v.s : v.s[i] \in Digits
      [] property.type = "string" -> v.t = "string"
      [] property.type = "boolean" -> v.t = "boolean"
      [] OTHER -> FALSE

\* C10 (as claimed): an inapplicable constraint never makes compile fail and
\* never gives an error to an entered value that is valid for the field's kind.
C10_InapplicableIgnored ==
    /\ (formPc # "init" /\ ~\E k \in Keys : BadPattern(PropOf(schema, k))) => zodSchema.status = "ok"
    /\ formPc = "ready" =>
        \A k \in Keys :
            (HasInapplicable(PropOf(schema, k)) /\ Present(values[k])
                /\ ValidForKind(PropOf(schema, k), values[k]))
            => errors[k] = {}

\* the shape local@domain.tld: one @ with text before it, and after it a dot
\* with text on both sides
HasEmailShape(s) ==
    \E at \in DOMAIN s :
        /\ s[at] = "@"
        /\ at > 1
        /\ \A i \in DOMAIN s : s[i] = "@" => i = at
        /\ \E dot \in DOMAIN s : s[dot] = "." /\ dot > at + 1 /\ dot < Len(s)
EmailKeys == {k \in Keys : Required(k) /\ KindOf(PropOf(schema, k)) = "email"}

\* C11: in a required email field, a non-empty value that has not the shape of
\* an email address has exactly one error, 'Invalid email address', and the
\* form is not submitted; a value of email shape has no error, and a valid
\* submission carries it unchanged.
C11_RequiredEmail ==
    formPc = "ready" =>
        \A k \in EmailKeys :
            (values[k].t = "string" /\ values[k].s # << >>) =>
                IF HasEmailShape(values[k].s)
                THEN /\ errors[k] = {}
                     /\ outcome = "invoked" => submitted[k] = values[k]
                ELSE /\ errors[k] = {Msg("Invalid email address", {})}
                     /\ outcome # "invoked"

\* C11 witness: a form with a required email field was submitted with an
\* address in it.
C11_Witness ==
    /\ formPc = "ready"
    /\ outcome = "invoked"
    /\ \E k \in EmailKeys :
        values[k].t = "string" /\ HasEmailShape(values[k].s) /\ submitted[k] = values[k]

(***************************************************************************)
(* The renderers as a state machine: a value arrives, with or without the  *)
(* property of an output schema, and is rendered.                          *)
(***************************************************************************)
InitRender ==
    /\ data \in OutputValues
    /\ hint \in {{}} \cup {{h} : h \in Hints}
    /\ plan = NoPlan
    /\ formPc = "none"
    /\ dashFields = << >>
    /\ schema = JSONSchema(<< >>, {})
    /\ zodSchema = NotCompiled
    /\ values = << >>
    /\ errors = << >>
    /\ isSubmitting = FALSE
    /\ inFlight = 0
    /\ outcome = "idle"
    /\ submitted = << >>
    /\ regexState = << >>
    /\ call = NoCall
    /\ earlier = NoCall
    /\ api = Unused
    /\ builder = Unused
    /\ poll = Unused
    /\ list = Unused

\* ExecutionDetailModal: <OutputRenderer data={...} />
RenderOutput ==
    /\ hint = {}
    /\ plan' = OutputRenderer(data)
    /\ UNCHANGED <<data, hint>>
    /\ UNCHANGED formVars
    /\ UNCHANGED callVars
    /\ UNCHANGED pageVars

\* DynamicOutput: renderValue(key, property, value) for a key of the schema
RenderHinted ==
    /\ hint # {}
    /\ plan' = RenderValue(CHOOSE h \in hint : TRUE, data)
    /\ UNCHANGED <<data, hint>>
    /\ UNCHANGED formVars
    /\ UNCHANGED callVars
    /\ UNCHANGED pageVars

NextRender == RenderOutput \/ RenderHinted

SpecRender == InitRender /\ [][NextRender]_vars

Rendered == plan.kind # "none"
\* content that runs script when it is put on the surface
ActiveHtml(s) == \E i \in DOMAIN s : s[i] \in {ScriptOpen, ImgOnerror}
ActiveUrl(s) == s # << >> /\ s[1] = ScriptUrl

\* C1: a string with no schema hint that contains both '<' and '>' and has no
\* image or file suffix is rendered as markup whose content is the sanitizer's
\* output, in which no <script> tag and no onerror= attribute of the input
\* survives.
C1_MarkupSanitized ==
    (Rendered /\ hint = {} /\ data.t = "string" /\ IncludesLt(data.s) /\ IncludesGt(data.s)
        /\ ~EndsWithOneOf(data.s, ImageSuffixes \cup FileSuffixes))
    => (plan.kind = "markup" /\ plan.html = Sanitize(data.s) /\ ~ActiveHtml(plan.html))

\* C1 witness: a string holding a script element and an onerror attribute was
\* rendered on the markup path.
C1_Witness ==
    /\ plan.kind = "markup"
    /\ \E i \in DOMAIN data.s : data.s[i] = ScriptOpen
    /\ \E i \in DOMAIN data.s : data.s[i] = ImgOnerror

\* C2 (as claimed): no rendered result, with or without a schema hint, puts
\* unsanitized active content on an active surface: no script in markup, no
\* script-executing URL as a link target.
C2_NoUnsanitizedActiveContent ==
    Rendered => (~ActiveHtml(plan.html) /\ ~ActiveUrl(plan.href))

\* C12 (as claimed): with no schema hint every value is rendered as exactly one
\* variant and nothing is thrown, also for arrays holding null; a record ends
\* in the JSON fallback.
C12_ClassifyNeverThrows ==
    (Rendered /\ hint = {}) =>
        /\ plan.kind \notin {"TypeError", "Error"}
        /\ data.t = "object" => plan.kind = "json"

\* the extensions as the specification lists them, in either case
ImageExtensions == {".png", ".jpg", ".jpeg", ".gif", ".webp", ".svg", ".PNG"}
DocumentExtensions == {".pdf", ".csv", ".xlsx", ".xls", ".doc", ".docx", ".zip", ".PDF"}
EndsIn(s, extensions) == s # << >> /\ s[Len(s)] \in extensions
HasAngles(s) == \E i \in DOMAIN s : \E j \in DOMAIN s :
                    /\ s[i] \in {Lt, "<b>", "</b>", ScriptOpen, ScriptClose, ImgOnerror}
                    /\ s[j] \in {Gt, "<b>", "</b>", ScriptOpen, ScriptClose, ImgOnerror}

\* C13: with no schema hint the first matching rule wins in a fixed order: a
\* string ending in an image extension is an image, whatever else it holds;
\* else one ending in a document extension is a file download; else one with
\* '<' and '>' is markup, never plain text; and an array is handled by the
\* sequence rules, never by the number, string or record rules.
C13_FixedPrecedence ==
    (Rendered /\ hint = {}) =>
        /\ data.t = "string" =>
            IF EndsIn(data.s, ImageExtensions) THEN plan.kind = "image" /\ plan.src = data.s
            ELSE IF EndsIn(data.s, DocumentExtensions)
            THEN plan.kind = "file-download" /\ plan.href = data.s
            ELSE IF HasAngles(data.s) THEN plan.kind = "markup"
            ELSE plan.kind = "plain-text"
        /\ data.t = "array" => plan.kind \notin {"number", "plain-text", "json", "boolean", "null"}

\* C13 witness: a string that holds markup and ends in an image extension was
\* rendered as an image.
C13_Witness ==
    /\ hint = {}
    /\ plan.kind = "image"
    /\ data.t = "string" /\ HasAngles(data.s) /\ EndsIn(data.s, ImageExtensions)

KeysOf(record) == [i \in DOMAIN record.fields |-> record.fields[i].key]
HasKey(record, key) == \E i \in DOMAIN record.fields : record.fields[i].key = key

\* C14 (as claimed): with no schema hint a non-empty array of keyed records is
\* a table whose columns are the keys of the first record in their order and
\* whose rows are the elements in order; the cell of a key the row lacks is
\* empty.
C14_TableOfFirstKeys ==
    (Rendered /\ hint = {} /\ data.t = "array" /\ data.items # << >>
        /\ \A i \in DOMAIN data.items : data.items[i].t = "object")
    => LET keys == KeysOf(data.items[1])
       IN  /\ plan.kind = "table"
           /\ plan.columns = [j \in DOMAIN keys |-> <<keys[j]>>]
           /\ DOMAIN plan.rows = DOMAIN data.items
           /\ \A i \in DOMAIN plan.rows :
                /\ DOMAIN plan.rows[i] = DOMAIN keys
                /\ \A j \in DOMAIN keys :
                    ~HasKey(data.items[i], keys[j]) => plan.rows[i][j] = << >>

\* C15 (as claimed): with no schema hint an array whose first element is not a
\* keyed record (an empty array, or one starting with a scalar, with null or
\* with an array) is a list, never a table, with one item per element.
C15_ListOfOthers ==
    (Rendered /\ hint = {} /\ data.t = "array"
        /\ (data.items = << >> \/ data.items[1].t # "object"))
    => (plan.kind = "list" /\ DOMAIN plan.items = DOMAIN data.items)

\* a string no rule before the text rules applies to: with no hint, one with
\* no image or document extension and without '<' and '>'; with a hint, one
\* whose hint is a plain string property
PlainString ==
    /\ data.t = "string"
    /\ \/ hint = {} /\ ~EndsIn(data.s, ImageExtensions \cup DocumentExtensions) /\ ~HasAngles(data.s)
       \/ hint = {Hint("string", {}, {})}
\* longer than the display threshold of 100: the sample of 150 characters
IsLong(s) == \E i \in DOMAIN s : s[i] = LongText

\* C16 (as claimed): with or without a schema hint, a string no earlier rule
\* applies to is long text when longer than 100 characters and plain text
\* otherwise, and a number is the number variant.
C16_TextAndNumber ==
    Rendered =>
        /\ PlainString => plan.kind = (IF IsLong(data.s) THEN "long-text" ELSE "plain-text")
        /\ (data.t = "number" /\ hint \in {{}, {Hint("number", {}, {})}}) => plan.kind = "number"

\* the variant a schema hint names, "" when it names none
HintedKind(h) ==
    CASE h.type = "boolean" -> "boolean"
      [] h.type # "boolean" /\ (h.format = {"data-url"} \/ h.contentMediaType # {}) -> "file"
      [] h.type # "boolean" /\ h.format = {"email"} -> "email-link"
      [] h.type # "boolean" /\ h.format \in {{"date"}, {"date-time"}} -> "date"
      [] OTHER -> ""
IsNull(v) == v.t \in {"null", "undefined"}

\* C17 (as claimed): a value that is not null, rendered under a hint naming the
\* boolean, email, date or file kind, is rendered as that kind whatever its
\* shape.
C17_HintedKindWins ==
    (Rendered /\ hint # {} /\ ~IsNull(data)) =>
        \A h \in hint : HintedKind(h) # "" => plan.kind = HintedKind(h)

\* C18: a null or absent value is rendered as the null variant, with no schema
\* hint and under every schema hint.
C18_NullFirst ==
    (Rendered /\ IsNull(data)) => plan.kind = "null"

\* C18 witness: null was rendered under a boolean hint.
C18_Witness ==
    /\ plan.kind = "null"
    /\ data = RNull
    /\ hint = {Hint("boolean", {}, {})}

(***************************************************************************)
(* The validator and the renderers as functions called again and again:    *)
(* one compiled validator, whose RegExp objects live as long as it does,   *)
(* and renderers whose regular expressions are literals evaluated anew on  *)
(* every call.                                                             *)
(***************************************************************************)
\* new RegExp(property.pattern): no flags
PatternFlags == ""
RegExpObject(source, flags) == [source |-> source, flags |-> flags]

\* RegExp.prototype.test from lastIndex: a regular expression without the g
\* flag ignores and keeps lastIndex; a global one anchored at ^ matches only
\* from 0, leaves lastIndex behind the match and resets it when it fails
RegExpTestAt(re, s, lastIndex) ==
    IF re.flags = "" THEN [result |-> RegExpTest(re.source, s), lastIndex |-> lastIndex]
    ELSE IF lastIndex = 0 /\ RegExpTest(re.source, s) THEN [result |-> TRUE, lastIndex |-> Len(s)]
    ELSE [result |-> FALSE, lastIndex |-> 0]

\* a regex check that treats the expression as global and tests from where
\* the last test ended
ZodRegexTest_GlobalNoReset(re, s, lastIndex) == RegExpTestAt([re EXCEPT !.flags = "g"], s, lastIndex)

\* the regex check of a ZodString: lastIndex is set to 0, then the value is tested
ZodRegexTest(re, s, lastIndex) == RegExpTestAt(re, s, 0)

IsRegexCheck(c) == c.kind = "regex"
IsOtherCheck(c) == c.kind # "regex"

\* zodType.safeParse(v) with the RegExp object in the state it was left in:
\* the issues and the lastIndex afterwards (the regex check is the last one
\* jsonSchemaToZod adds)
ZodIssuesAt(zt, v, lastIndex) ==
    IF zt.base = "string" /\ v.t = "string" /\ SelectSeq(zt.checks, IsRegexCheck) # << >>
    THEN LET c == SelectSeq(zt.checks, IsRegexCheck)[1]
             t == ZodRegexTest(RegExpObject(c.source, PatternFlags), v.s, lastIndex)
         IN  [issues |-> CheckIssues(SelectSeq(zt.checks, IsOtherCheck), v)
                            \o (IF t.result THEN << >> ELSE <<c.message>>),
              lastIndex |-> t.lastIndex]
    ELSE [issues |-> ZodIssues(zt, v), lastIndex |-> lastIndex]

\* zodResolver(zodSchema)(values) on the compiled validator as it is now
ResolverAt(zs, vals, state) ==
    [errors |-> [k \in ShapeKeys(zs) |->
                    LET issues == ZodIssuesAt(ShapeType(zs, k), vals[k], state[k]).issues
                    IN  IF issues = << >> THEN {} ELSE {issues[1]}],
     state |-> [k \in ShapeKeys(zs) |-> ZodIssuesAt(ShapeType(zs, k), vals[k], state[k]).lastIndex]]

\* forms and values of the calls
CallSchemas ==
    { JSONSchema(<<[key |-> "k1", p |-> p]>>, r) :
        p \in {[P("string") EXCEPT !.pattern = {WordPattern}],
               [P("string") EXCEPT !.minLength = {2}, !.pattern = {WordPattern}], PEmail, PAge},
        r \in SUBSET {"k1"} }
CallValues ==
    { RStr(<<"x", ".PNG">>), RStr(<<"x", ".png">>), RStr(<<"x", ".pdf">>), RStr(<<"x">>), RStr(<<LongText>>),
      RStr(<<ScriptOpen, "alert(1)", ScriptClose, "<b>", "x", "</b>">>),
      RNull, RNum(42), RArr(<<Row(1, "a"), Row(2, "b")>>), RArr(<<RNum(1), RNum(2)>>) }
CallHints == {{}, {Hint("string", {}, {})}}

InitCalls ==
    /\ formPc = "init"
    /\ dashFields = << >>
    /\ schema \in CallSchemas
    /\ zodSchema = NotCompiled
    /\ values = Blank(schema)
    /\ errors = NoErrorsOf(schema)
    /\ isSubmitting = FALSE
    /\ inFlight = 0
    /\ outcome = "idle"
    /\ submitted = Blank(schema)
    /\ data = RUndefined
    /\ hint = {}
    /\ plan = NoPlan
    /\ regexState = << >>
    /\ call = NoCall
    /\ earlier = NoCall
    /\ api = Unused
    /\ builder = Unused
    /\ poll = Unused
    /\ list = Unused

\* the resolver is called with vals
ValidateCall(vals) ==
    /\ formPc = "ready"
    /\ call' = [NoCall EXCEPT !.fn = "validate", !.vals = vals,
                              !.errors = ResolverAt(zodSchema, vals, regexState).errors]
    /\ regexState' = ResolverAt(zodSchema, vals, regexState).state
    /\ UNCHANGED earlier
    /\ UNCHANGED formVars
    /\ UNCHANGED renderVars
    /\ UNCHANGED pageVars

\* a renderer is called with d, and with the property h when there is one;
\* its /.../i literals are new RegExp objects on every call
ClassifyCall(d, h) ==
    /\ call' = [NoCall EXCEPT !.fn = "classify", !.d = d, !.h = h,
                              !.plan = IF h = {} THEN OutputRenderer(d)
                                       ELSE RenderValue(CHOOSE x \in h : TRUE, d)]
    /\ UNCHANGED <<regexState, earlier>>
    /\ UNCHANGED formVars
    /\ UNCHANGED renderVars
    /\ UNCHANGED pageVars

\* the latest call is set aside for comparison with the calls made after it
Remember ==
    /\ call.fn # "none"
    /\ earlier' = call
    /\ call' = NoCall
    /\ UNCHANGED regexState
    /\ UNCHANGED formVars
    /\ UNCHANGED renderVars
    /\ UNCHANGED pageVars

ValidateAny == \E v \in ControlInputs(PropOf(schema, "k1")) \cup {Undefined} : ValidateCall([k \in {"k1"} |-> v])
ClassifyAny == \E d \in CallValues : \E h \in CallHints : ClassifyCall(d, h)

NextCalls == Mount \/ ValidateAny \/ ClassifyAny \/ Remember

SpecCalls == InitCalls /\ [][NextCalls]_vars

SameArguments(a, b) == a.fn = b.fn /\ a.fn # "none" /\ a.vals = b.vals /\ a.d = b.d /\ a.h = b.h

C20_SubmitDisabledOnError ==
    (formPc = "ready" /\ \E k \in Keys : errors[k] # {}) => SubmitDisabled

\* C21: while a submission is pending the submit button and every control are
\* disabled, and at most one call of onSubmit is in flight.
C21_OneSubmissionInFlight ==
    /\ inFlight <= 1
    /\ (isSubmitting \/ isLoading) => (SubmitDisabled /\ InputDisabled)

\* C21 witness: a submission is in flight and the form is disabled.
C21_Witness ==
    /\ formPc = "ready"
    /\ inFlight = 1
    /\ isSubmitting
    /\ outcome = "invoked"

(***************************************************************************)
(* apiFetch (utils/api.ts) and its call sites                              *)
(***************************************************************************)
\* the third argument of a call: nothing, null, an empty array, a Zod schema
SchemaArgs == {"undefined", "null", "[]", "WorkflowsSchema"}
\* if (schema)
TruthyArg(arg) == arg \in {"[]", "WorkflowsSchema"}

\* the calls of apiFetch in the repository and what each passes as schema
CallSites ==
    { [site |-> "ExecutionHistory", schema |-> "[]"],
      [site |-> "Sidebar", schema |-> "[]"],
      [site |-> "useWorkflows", schema |-> "WorkflowsSchema"],
      [site |-> "ExecutionDetail", schema |-> "null"],
      [site |-> "WorkflowExecute", schema |-> "null"],
      [site |-> "Workflows", schema |-> "null"],
      [site |-> "DashboardView", schema |-> "undefined"],
      [site |-> "DashboardList", schema |-> "undefined"],
      [site |-> "DashboardBuilder", schema |-> "undefined"] }

IsoDateTime == "2024-01-01T00:00:00Z"
WorkflowRecord ==
    RObj(<<Entry("id", RStr(<<"w1">>)), Entry("name", RStr(<<"x">>)), Entry("active", RBool(TRUE)),
           Entry("nodes", RArr(<< >>)), Entry("connections", RObj(<< >>)),
           Entry("createdAt", RStr(<<IsoDateTime>>)), Entry("updatedAt", RStr(<<IsoDateTime>>))>>)
DetailBody == RObj(<<Entry("detail", RStr(<<"Not found">>))>>)

\* WorkflowSchema: z.object({id, name, active, nodes, connections, createdAt, updatedAt})
WorkflowSchemaAccepts(v) ==
    /\ v.t = "object"
    /\ GetProp(v, "id").t = "string"
    /\ GetProp(v, "name").t = "string"
    /\ GetProp(v, "active").t = "boolean"
    /\ GetProp(v, "nodes").t = "array"
    /\ GetProp(v, "createdAt") = RStr(<<IsoDateTime>>)
    /\ GetProp(v, "updatedAt") = RStr(<<IsoDateTime>>)
\* WorkflowsSchema = z.array(WorkflowSchema)
WorkflowsSchemaAccepts(v) ==
    v.t = "array" /\ \A i \in DOMAIN v.items : WorkflowSchemaAccepts(v.items[i])

\* a response of the server: its status line and whether its body is JSON
Response(status, statusText, json, value) ==
    [failed |-> FALSE, status |-> status, statusText |-> statusText, json |-> json, value |-> value]
\* fetch rejected: no response
NoResponse == [failed |-> TRUE, status |-> 0, statusText |-> "", json |-> FALSE, value |-> RUndefined]
\* response.ok
Ok(response) == response.status \in 200..299

JsonBodies ==
    { RArr(<< >>), RArr(<<WorkflowRecord>>), RArr(<<Row(1, "a"), Row(2, "b")>>), DetailBody, RNull }
Responses ==
    {NoResponse}
    \cup { Response(st[1], st[2], TRUE, v) :
            st \in {<<200, "OK">>, <<201, "Created">>, <<404, "Not Found">>, <<500, "Internal Server Error">>},
            v \in JsonBodies }
    \cup { Response(st[1], st[2], FALSE, RUndefined) :
            st \in {<<200, "OK">>, <<404, "Not Found">>, <<502, "Bad Gateway">>} }

\* how a promise settles: resolved with a value or rejected with an error
Settled(kind, value, status, statusText, errorData, message) ==
    [kind |-> kind, value |-> value, status |-> status, statusText |-> statusText,
     errors |-> errorData, message |-> message]
Resolved(value) == Settled("resolved", value, 0, "", RUndefined, "")
Rejected(kind, message) == Settled(kind, RUndefined, 0, "", RUndefined, message)
\* new ApiError(status, statusText, errorData)
ApiError(status, statusText, errorData) ==
    Settled("ApiError", RUndefined, status, statusText, errorData,
            "API Error: " \o ToString(status) \o " " \o statusText)
DefaultDetail == RObj(<<Entry("detail", RStr(<<"An unexpected error occurred.">>))>>)

\* the body of the try block: what it returns or throws
TryFetch(response, schemaArg) ==
    IF response.failed THEN Rejected("TypeError", "Failed to fetch")
    ELSE IF ~Ok(response)
    THEN ApiError(response.status, response.statusText,
                  IF response.json THEN response.value ELSE DefaultDetail)
    ELSE IF ~response.json THEN Rejected("SyntaxError", "Unexpected token")
    ELSE IF TruthyArg(schemaArg)
    THEN IF schemaArg = "[]" THEN Rejected("TypeError", "schema.safeParse is not a function")
         ELSE IF WorkflowsSchemaAccepts(response.value) THEN Resolved(response.value)
         ELSE Rejected("ZodError", "")
    ELSE Resolved(response.value)

\* the catch block that lets no error of the try block through
CatchAll(attempt) ==
    IF attempt.kind = "resolved" THEN attempt
    ELSE Rejected("Error", "A network error occurred. Please try again.")

\* the catch block: ApiError and ZodError are thrown again, everything else
\* becomes the generic Error
Catch(attempt) ==
    IF attempt.kind \in {"resolved", "ApiError", "ZodError"} THEN attempt
    ELSE Rejected("Error", "A network error occurred. Please try again.")

\* apiFetch(endpoint, options, schema) given the response of the server
ApiFetch(response, schemaArg) == Catch(TryFetch(response, schemaArg))

InitApi ==
    /\ api = [pc |-> "idle", site |-> "", schema |-> "undefined", response |-> NoResponse,
              result |-> Resolved(RUndefined)]
    /\ builder = Unused
    /\ poll = Unused
    /\ list = Unused
    /\ formPc = "none"
    /\ dashFields = << >>
    /\ schema = JSONSchema(<< >>, {})
    /\ zodSchema = NotCompiled
    /\ values = << >>
    /\ errors = << >>
    /\ isSubmitting = FALSE
    /\ inFlight = 0
    /\ outcome = "idle"
    /\ submitted = << >>
    /\ data = RUndefined
    /\ hint = {}
    /\ plan = NoPlan
    /\ regexState = << >>
    /\ call = NoCall
    /\ earlier = NoCall

\* a call site calls apiFetch
ApiCall ==
    /\ api.pc \in {"idle", "settled"}
    /\ \E c \in CallSites :
        api' = [api EXCEPT !.pc = "pending", !.site = c.site, !.schema = c.schema,
                           !.response = NoResponse, !.result = Resolved(RUndefined)]
    /\ UNCHANGED <<builder, poll, list>>
    /\ UNCHANGED <<formVars, renderVars, callVars>>

\* the server answers, or the request fails, and the promise of apiFetch settles
ApiSettle ==
    /\ api.pc = "pending"
    /\ \E r \in Responses :
        api' = [api EXCEPT !.pc = "settled", !.response = r, !.result = ApiFetch(r, api.schema)]
    /\ UNCHANGED <<builder, poll, list>>
    /\ UNCHANGED <<formVars, renderVars, callVars>>

NextApi == ApiCall \/ ApiSettle

SpecApi == InitApi /\ [][NextApi]_vars

\* C22 (as claimed): at every call site, an ok response with a JSON body
\* resolves with the parsed body unless a Zod schema was supplied and rejects
\* the body.
C22_OkResolvesWithBody ==
    (api.pc = "settled" /\ ~api.response.failed /\ api.response.status \in 200..299
        /\ api.response.json)
    => IF api.schema = "WorkflowsSchema" /\ ~WorkflowsSchemaAccepts(api.response.value)
       THEN api.result.kind = "ZodError"
       ELSE api.result = Resolved(api.response.value)

GenericError == Rejected("Error", "A network error occurred. Please try again.")

\* C23: apiFetch rejects with ApiError exactly when there is a response and it
\* is not ok, the error carrying the status, the status text and the parsed
\* error body or the default detail; with the ZodError when a Zod schema
\* rejects the body of an ok response; and with the generic Error for every
\* other failure.  Nothing else leaves apiFetch.
C23_ErrorsOfApiFetch ==
    api.pc = "settled" =>
        LET r == api.response
            notOk == ~r.failed /\ r.status \notin 200..299
        IN  /\ api.result.kind \in {"resolved", "ApiError", "ZodError", "Error"}
            /\ api.result.kind = "ApiError" <=> notOk
            /\ notOk => /\ api.result.status = r.status
                        /\ api.result.statusText = r.statusText
                        /\ api.result.errors = (IF r.json THEN r.value ELSE DefaultDetail)
            /\ (~r.failed /\ ~notOk /\ r.json /\ api.schema = "WorkflowsSchema"
                    /\ ~WorkflowsSchemaAccepts(r.value))
                => api.result.kind = "ZodError"
            /\ api.result.kind = "Error" => api.result = GenericError
            /\ (r.failed \/ (~notOk /\ ~r.json)) => api.result = GenericError

\* C23 witness: a response that is not ok and whose body is not JSON was
\* turned into an ApiError with the default detail.
C23_Witness ==
    /\ api.pc = "settled"
    /\ api.result.kind = "ApiError"
    /\ ~api.response.json
    /\ api.result.errors = DefaultDetail
    /\ api.result.status = 502

(***************************************************************************)
(* DashboardBuilder (pages/DashboardBuilder.tsx)                           *)
(***************************************************************************)
\* String.prototype.split(',') and String.prototype.trim() on a string given
\* as its characters
RECURSIVE SplitComma(_)
SplitComma(s) ==
    IF \A i \in DOMAIN s : s[i] # "," THEN <<s>>
    ELSE LET i == CHOOSE j \in DOMAIN s : s[j] = "," /\ \A h \in 1..(j - 1) : s[h] # ","
         IN  <<SubSeq(s, 1, i - 1)>> \o SplitComma(SubSeq(s, i + 1, Len(s)))
RECURSIVE Trim(_)
Trim(s) ==
    IF s = << >> THEN s
    ELSE IF s[1] = " " THEN Trim(Tail(s))
    ELSE IF s[Len(s)] = " " THEN Trim(SubSeq(s, 1, Len(s) - 1))
    ELSE s

\* field.options in the builder: undefined, the string typed into the
\* options input, or a list of strings
NoOptions == [kind |-> "undefined", raw |-> << >>, items |-> << >>]
RawOptions(raw) == [kind |-> "string", raw |-> raw, items |-> << >>]
ListOptions(items) == [kind |-> "array", raw |-> << >>, items |-> items]

\* a field of the builder: {id, name, label, type, required, options}
BuilderField(id, name, type, required, options) ==
    [id |-> id, name |-> name, type |-> type, required |-> required, options |-> options]

\* the instances of the user and the workflows of each
Instances == {"i1", "i2"}
WorkflowsOf(instanceId) == IF instanceId = "i1" THEN {"w1"} ELSE IF instanceId = "i2" THEN {"w2"} ELSE {}

\* what the user can put into the controls of a field
FieldIds == {1, 2}
FieldNames == {"", "k1", "k2"}
BuilderTypes == {"text", "number", "select", "checkbox"}
OptionTexts == {<<"a", ",", " ", "1", "8">>, << >>}

NoPayload == [saved |-> FALSE, name |-> "", workflow_id |-> "", instance_id |-> "", fields |-> << >>]

\* fields.map(f => ({...f, options: ...})) of handleSave
SavedField(f) ==
    [f EXCEPT !.options =
        IF f.type = "select" /\ f.options.kind = "string"
        THEN ListOptions([i \in DOMAIN SplitComma(f.options.raw) |-> Trim(SplitComma(f.options.raw)[i])])
        ELSE f.options]

\* arrayMove(items, oldIndex, newIndex) of @dnd-kit/sortable
ArrayMove(items, from, to) ==
    LET without == [i \in 1..(Len(items) - 1) |-> IF i < from THEN items[i] ELSE items[i + 1]]
    IN  [i \in DOMAIN items |->
            IF i < to THEN without[i] ELSE IF i = to THEN items[from] ELSE without[i - 1]]

InitBuilder ==
    /\ builder = [pc |-> "open", step |-> 1, selectedInstanceId |-> "", selectedWorkflowId |-> "",
                  dashboardName |-> "", fields |-> << >>, isPending |-> FALSE, payload |-> NoPayload]
    /\ api = Unused
    /\ poll = Unused
    /\ list = Unused
    /\ formPc = "none"
    /\ dashFields = << >>
    /\ schema = JSONSchema(<< >>, {})
    /\ zodSchema = NotCompiled
    /\ values = << >>
    /\ errors = << >>
    /\ isSubmitting = FALSE
    /\ inFlight = 0
    /\ outcome = "idle"
    /\ submitted = << >>
    /\ data = RUndefined
    /\ hint = {}
    /\ plan = NoPlan
    /\ regexState = << >>
    /\ call = NoCall
    /\ earlier = NoCall

\* onChange of the instance select: setSelectedInstanceId(e.target.value)
SelectInstance ==
    /\ builder.step = 1
    /\ \E i \in Instances \cup {""} :
        /\ i # builder.selectedInstanceId
        /\ builder' = [builder EXCEPT !.selectedInstanceId = i, !.payload = NoPayload]
    /\ UNCHANGED <<api, poll, list>>
    /\ UNCHANGED <<formVars, renderVars, callVars>>

\* onChange of the workflow select, which lists the workflows of the selected
\* instance and is disabled while no instance is selected
SelectWorkflow ==
    /\ builder.step = 1
    /\ builder.selectedInstanceId # ""
    /\ \E w \in WorkflowsOf(builder.selectedInstanceId) \cup {""} :
        /\ w # builder.selectedWorkflowId
        /\ builder' = [builder EXCEPT !.selectedWorkflowId = w, !.payload = NoPayload]
    /\ UNCHANGED <<api, poll, list>>
    /\ UNCHANGED <<formVars, renderVars, callVars>>

\* Next: Configure Dashboard, disabled while no workflow is selected
NextStep ==
    /\ builder.step = 1
    /\ builder.selectedWorkflowId # ""
    /\ builder' = [builder EXCEPT !.step = 2]
    /\ UNCHANGED <<api, poll, list>>
    /\ UNCHANGED <<formVars, renderVars, callVars>>

\* Back
BackStep ==
    /\ builder.step = 2
    /\ builder' = [builder EXCEPT !.step = 1]
    /\ UNCHANGED <<api, poll, list>>
    /\ UNCHANGED <<formVars, renderVars, callVars>>

\* setDashboardName
SetDashboardName ==
    /\ builder.step = 2
    /\ \E n \in {"", "d"} :
        /\ n # builder.dashboardName
        /\ builder' = [builder EXCEPT !.dashboardName = n, !.payload = NoPayload]
    /\ UNCHANGED <<api, poll, list>>
    /\ UNCHANGED <<formVars, renderVars, callVars>>

\* handleAddField: a text field with an empty name and a new random id
handleAddField ==
    /\ builder.step = 2
    /\ \E id \in FieldIds :
        /\ \A i \in DOMAIN builder.fields : builder.fields[i].id # id
        /\ builder' = [builder EXCEPT
                !.fields = Append(@, BuilderField(id, "", "text", FALSE, NoOptions)),
                !.payload = NoPayload]
    /\ UNCHANGED <<api, poll, list>>
    /\ UNCHANGED <<formVars, renderVars, callVars>>

\* handleUpdateField(index, updates) from the controls of SortableField: the
\* key, the type, the required box, and the options input a dropdown shows
handleUpdateField ==
    /\ builder.step = 2
    /\ \E index \in DOMAIN builder.fields :
        \E updated \in
            {[builder.fields[index] EXCEPT !.name = n] : n \in FieldNames}
            \cup {[builder.fields[index] EXCEPT !.type = t] : t \in BuilderTypes}
            \cup {[builder.fields[index] EXCEPT !.required = ~@]}
            \cup (IF builder.fields[index].type = "select"
                  THEN {[builder.fields[index] EXCEPT !.options = RawOptions(o)] :
                            o \in {t \in OptionTexts : t # << >> \/ builder.fields[index].options.kind = "string"}}
                  ELSE {}) :
            /\ updated # builder.fields[index]
            /\ builder' = [builder EXCEPT !.fields[index] = updated, !.payload = NoPayload]
    /\ UNCHANGED <<api, poll, list>>
    /\ UNCHANGED <<formVars, renderVars, callVars>>

\* handleRemoveField(index)
handleRemoveField ==
    /\ builder.step = 2
    /\ \E index \in DOMAIN builder.fields :
        builder' = [builder EXCEPT
            !.fields = [i \in 1..(Len(@) - 1) |-> IF i < index THEN @[i] ELSE @[i + 1]],
            !.payload = NoPayload]
    /\ UNCHANGED <<api, poll, list>>
    /\ UNCHANGED <<formVars, renderVars, callVars>>

\* handleDragEnd: the dragged field is dropped on another one
handleDragEnd ==
    /\ builder.step = 2
    /\ \E from \in DOMAIN builder.fields : \E to \in DOMAIN builder.fields :
        /\ builder.fields[from].id # builder.fields[to].id
        /\ builder' = [builder EXCEPT !.fields = ArrayMove(@, from, to), !.payload = NoPayload]
    /\ UNCHANGED <<api, poll, list>>
    /\ UNCHANGED <<formVars, renderVars, callVars>>

\* handleSave behind the Create Dashboard button, disabled while there is no
\* name, no field or a pending mutation
handleSave ==
    /\ builder.step = 2
    /\ builder.dashboardName # ""
    /\ Len(builder.fields) # 0
    /\ ~builder.isPending
    /\ builder' = [builder EXCEPT
            !.isPending = TRUE,
            !.payload = [saved |-> TRUE, name |-> builder.dashboardName,
                         workflow_id |-> builder.selectedWorkflowId,
                         instance_id |-> builder.selectedInstanceId,
                         fields |-> [i \in DOMAIN builder.fields |-> SavedField(builder.fields[i])]]]
    /\ UNCHANGED <<api, poll, list>>
    /\ UNCHANGED <<formVars, renderVars, callVars>>

\* the mutation fails and the page stays open
SaveFails ==
    /\ builder.isPending
    /\ builder' = [builder EXCEPT !.isPending = FALSE]
    /\ UNCHANGED <<api, poll, list>>
    /\ UNCHANGED <<formVars, renderVars, callVars>>

NextBuilder ==
    \/ SelectInstance \/ SelectWorkflow \/ NextStep \/ BackStep \/ SetDashboardName
    \/ handleAddField \/ handleUpdateField \/ handleRemoveField \/ handleDragEnd
    \/ handleSave \/ SaveFails

SpecBuilder == InitBuilder /\ [][NextBuilder]_vars

\* the stored fields as DashboardView reads them
StoredField(f) ==
    DashboardField(f.name, f.type, f.required,
                   IF f.options.kind = "array" THEN {f.options.items}
                   ELSE IF f.options.kind = "string" THEN {<<f.options.raw>>}
                   ELSE {})
StoredFields(payload) == [i \in DOMAIN payload.fields |-> StoredField(payload.fields[i])]

\* C24 (as claimed): the fields of every saved dashboard have names that are
\* not empty and pairwise distinct, and the schema DashboardView derives from
\* them has one property per field.
C24_FieldNamesUnique ==
    builder.payload.saved =>
        LET fields == builder.payload.fields
        IN  /\ \A i \in DOMAIN fields : fields[i].name # ""
            /\ \A i \in DOMAIN fields : \A j \in DOMAIN fields : i # j => fields[i].name # fields[j].name
            /\ Len(DeriveSchema(StoredFields(builder.payload)).properties) = Len(fields)

\* C25 (as claimed): the workflow_id of every saved dashboard is not empty and
\* is a workflow of the instance whose id, not empty either, is saved with it.
C25_WorkflowOfInstance ==
    builder.payload.saved =>
        /\ builder.payload.workflow_id # ""
        /\ builder.payload.instance_id # ""
        /\ builder.payload.workflow_id \in WorkflowsOf(builder.payload.instance_id)

\* C26 (as claimed): the options of every field of a saved dashboard are
\* absent or a list of trimmed strings, never the string typed into the
\* options input.
C26_OptionsAreLists ==
    builder.payload.saved =>
        \A i \in DOMAIN builder.payload.fields :
            LET o == builder.payload.fields[i].options
            IN  \/ o.kind = "undefined"
                \/ /\ o.kind = "array"
                   /\ \A j \in DOMAIN o.items :
                        o.items[j] = << >> \/ (o.items[j][1] # " " /\ o.items[j][Len(o.items[j])] # " ")

\* the kind a stored field type stands for
KindOfFieldType(type) ==
    CASE type = "number" -> "number"
      [] type = "email" -> "email"
      [] type = "textarea" -> "long-text"
      [] type = "select" -> "enum"
      [] type = "checkbox" -> "boolean"
      [] OTHER -> "string"

\* C27 (as claimed): the schema DashboardView derives keeps the kind of every
\* stored field (number, email, long-text for textarea, enum over the options
\* of a select, boolean for checkbox, string for text), and the control of a
\* checkbox field delivers booleans.
C27_KindPreserved ==
    \A i \in DOMAIN dashFields :
        LET f == dashFields[i]
            property == PropOf(schema, f.name)
        IN  (/\ \A j \in DOMAIN dashFields : j # i => dashFields[j].name # f.name
             /\ f.type = "select" => f.options # {}
             /\ f.type # "select" => f.options = {})
            => /\ KindOf(property) = KindOfFieldType(f.type)
               /\ f.type = "select" => property.enum = f.options
               /\ f.type = "checkbox" =>
                     /\ ControlOf(property) = "checkbox"
                     /\ formPc = "ready" /\ values[f.name] # Undefined
                           => values[f.name].t = "boolean"

(***************************************************************************)
(* ExecutionDetail: the execution query and its refetch interval           *)
(***************************************************************************)
\* execution.status
ExecutionStatuses == {"pending", "running", "success", "failed"}
TerminalStatuses == {"success", "failed"}
\* return 3000; // Refresh every 3 seconds
RefreshMs == 3000
\* return false
NoRefetch == 0

\* useQuery of @tanstack/react-query hands the refetchInterval callback the
\* query data in version 4 and the Query object in version 5; the repository
\* does not pin the version.  A Query object is truthy and has no status
\* property; the data is undefined until a fetch has succeeded.
QueryVersions == {"v4", "v5"}
CallbackArgument(version, fetched) ==
    IF version = "v5" THEN [defined |-> TRUE, status |-> "undefined"]
    ELSE [defined |-> fetched # "none", status |-> fetched]

\* refetchInterval: (data) => ...
refetchInterval(arg) ==
    IF arg.defined /\ (arg.status = "pending" \/ arg.status = "running")
    THEN RefreshMs
    ELSE NoRefetch

\* the page is opened on an execution; enabled: !!runId starts the first fetch
InitPoll ==
    /\ \E version \in QueryVersions, runId \in {"", "r1"}, status \in ExecutionStatuses :
        poll = [pc |-> "mounted", version |-> version, runId |-> runId, server |-> status,
                fetched |-> "none", fetching |-> runId # "", error |-> FALSE,
                interval |-> NoRefetch]
    /\ api = Unused
    /\ builder = Unused
    /\ list = Unused
    /\ formPc = "none"
    /\ dashFields = << >>
    /\ schema = JSONSchema(<< >>, {})
    /\ zodSchema = NotCompiled
    /\ values = << >>
    /\ errors = << >>
    /\ isSubmitting = FALSE
    /\ inFlight = 0
    /\ outcome = "idle"
    /\ submitted = << >>
    /\ data = RUndefined
    /\ hint = {}
    /\ plan = NoPlan
    /\ regexState = << >>
    /\ call = NoCall
    /\ earlier = NoCall

\* the backend moves the execution on: pending, running, then success or failed
ExecutionAdvances ==
    /\ poll.pc = "mounted"
    /\ \E next \in ExecutionStatuses :
        /\ \/ poll.server = "pending" /\ next \in {"running", "failed"}
           \/ poll.server = "running" /\ next \in TerminalStatuses
        /\ poll' = [poll EXCEPT !.server = next]
    /\ UNCHANGED <<api, builder, list>>
    /\ UNCHANGED <<formVars, renderVars, callVars>>

\* queryFn resolves: the data is the execution as the server has it now, and
\* the interval is computed again from the callback
FetchSucceeds ==
    /\ poll.pc = "mounted"
    /\ poll.fetching
    /\ poll' = [poll EXCEPT !.fetching = FALSE, !.error = FALSE, !.fetched = poll.server,
                            !.interval = refetchInterval(CallbackArgument(poll.version, poll.server))]
    /\ UNCHANGED <<api, builder, list>>
    /\ UNCHANGED <<formVars, renderVars, callVars>>

\* queryFn rejects: the data of the last success is kept
FetchFails ==
    /\ poll.pc = "mounted"
    /\ poll.fetching
    /\ poll' = [poll EXCEPT !.fetching = FALSE, !.error = TRUE,
                            !.interval = refetchInterval(CallbackArgument(poll.version, poll.fetched))]
    /\ UNCHANGED <<api, builder, list>>
    /\ UNCHANGED <<formVars, renderVars, callVars>>

\* the interval timer fires and refetches
IntervalFires ==
    /\ poll.pc = "mounted"
    /\ poll.interval # NoRefetch
    /\ ~poll.fetching
    /\ poll' = [poll EXCEPT !.fetching = TRUE]
    /\ UNCHANGED <<api, builder, list>>
    /\ UNCHANGED <<formVars, renderVars, callVars>>

\* the window regains focus: an enabled query is refetched (refetchOnWindowFocus)
WindowFocus ==
    /\ poll.pc = "mounted"
    /\ poll.runId # ""
    /\ ~poll.fetching
    /\ poll' = [poll EXCEPT !.fetching = TRUE]
    /\ UNCHANGED <<api, builder, list>>
    /\ UNCHANGED <<formVars, renderVars, callVars>>

NextPoll == ExecutionAdvances \/ FetchSucceeds \/ FetchFails \/ IntervalFires \/ WindowFocus

\* the timer fires when armed, and a fetch that is tried again and again
\* succeeds at some time
SpecPoll ==
    InitPoll /\ [][NextPoll]_vars /\ WF_vars(IntervalFires) /\ SF_vars(FetchSucceeds)

\* the status the page shows: if (error || !execution) shows the error box
DisplayedStatus ==
    IF poll.error \/ poll.fetched = "none" THEN "none" ELSE poll.fetched

\* C28 (as claimed): while the last fetched status is pending or running the
\* view refetches every 3 seconds, after a fetched terminal status the interval
\* is off for good, and an execution fetched as pending or running that has
\* completed is at some time displayed with a terminal status.
C28_PollsUntilTerminal ==
    /\ [](poll.fetched \in {"pending", "running"} /\ ~poll.fetching => poll.interval = RefreshMs)
    /\ [](poll.fetched \in TerminalStatuses => [](poll.interval = NoRefetch))
    /\ ((poll.fetched \in {"pending", "running"} /\ poll.server \in TerminalStatuses)
            ~> (DisplayedStatus \in TerminalStatuses))

(***************************************************************************)
(* The execution lists: ExecutionHistory (OutputRenderer.tsx) and the      *)
(* Executions page                                                         *)
(***************************************************************************)
\* const pageSize = 20 (ExecutionHistory)
pageSize == 20
\* const limit = 20 (Executions)
limit == 20

ListKinds == {"ExecutionHistory", "Executions"}
\* useState(0) in ExecutionHistory, useState(1) in Executions
FirstPage(kind) == IF kind = "ExecutionHistory" THEN 0 ELSE 1
\* useState('') in ExecutionHistory, useState('all') in Executions
NoStatusFilter(kind) == IF kind = "ExecutionHistory" THEN "" ELSE "all"
\* the options of the status select that the model uses
StatusFilters(kind) == {NoStatusFilter(kind), "success", "failed"}
\* the values of a date input: empty or a day
DateInputs == {"", "2024-01-01"}
\* the third argument of apiFetch in the queryFn
SchemaArgOf(kind) == IF kind = "ExecutionHistory" THEN "[]" ELSE "null"

\* an offset that is the page index times the limit in both lists
OffsetOf_PageTimesLimit(kind, page) == page * limit
\* offset: (page * pageSize) in ExecutionHistory, ((page - 1) * limit) in Executions
OffsetOf(kind, page) ==
    IF kind = "ExecutionHistory" THEN page * pageSize ELSE (page - 1) * limit

\* filter handlers that leave the page index as it is
PageAfterFilter_Kept(kind, page) == page
\* setPage(0) in ExecutionHistory, setPage(1) in Executions
PageAfterFilter(kind, page) == IF kind = "ExecutionHistory" THEN 0 ELSE 1

\* queryKey
QueryKey(page, statusFilter, startDate, endDate) ==
    [page |-> page, statusFilter |-> statusFilter, startDate |-> startDate, endDate |-> endDate]
KeyOf(l) == QueryKey(l.page, l.statusFilter, l.startDate, l.endDate)

\* the rows the server answers for a key: it holds total.all executions,
\* total.filtered of them under any filter, and honours limit and offset
RowsOf(kind, total, key) ==
    LET filtered == \/ key.statusFilter # NoStatusFilter(kind)
                    \/ key.startDate # ""
                    \/ key.endDate # ""
        count == IF filtered THEN total.filtered ELSE total.all
        offset == OffsetOf(kind, key.page)
        remaining == IF count > offset THEN count - offset ELSE 0
    IN  IF remaining > limit THEN limit ELSE remaining

\* executions.length of the render: data: executions = [] in ExecutionHistory,
\* executions?.length || 0 in Executions
DisplayedRows(l) == IF l.status = "success" THEN l.rows ELSE 0

\* a render with new state: the query of the new key is shown from the cache
\* or starts loading, requesting the offset of the new page
Rerender(l, page, statusFilter, startDate, endDate, event) ==
    LET key == QueryKey(page, statusFilter, startDate, endDate)
    IN  IF key = KeyOf(l) THEN [l EXCEPT !.event = event, !.from = l.page]
        ELSE [l EXCEPT !.page = page, !.statusFilter = statusFilter,
                       !.startDate = startDate, !.endDate = endDate,
                       !.offset = OffsetOf(l.pc, page),
                       !.status = IF key \in l.seen THEN "success" ELSE "pending",
                       !.rows = IF key \in l.seen THEN RowsOf(l.pc, l.total, key) ELSE 0,
                       !.event = event, !.from = l.page]

InitList ==
    /\ \E kind \in ListKinds, all \in {7, 20, 45}, filtered \in {0, 25} :
        list = [pc |-> kind, page |-> FirstPage(kind), statusFilter |-> NoStatusFilter(kind),
                startDate |-> "", endDate |-> "", offset |-> OffsetOf(kind, FirstPage(kind)),
                status |-> "pending", rows |-> 0, seen |-> {},
                total |-> [all |-> all, filtered |-> filtered],
                event |-> "none", from |-> FirstPage(kind)]
    /\ api = Unused
    /\ builder = Unused
    /\ poll = Unused
    /\ formPc = "none"
    /\ dashFields = << >>
    /\ schema = JSONSchema(<< >>, {})
    /\ zodSchema = NotCompiled
    /\ values = << >>
    /\ errors = << >>
    /\ isSubmitting = FALSE
    /\ inFlight = 0
    /\ outcome = "idle"
    /\ submitted = << >>
    /\ data = RUndefined
    /\ hint = {}
    /\ plan = NoPlan
    /\ regexState = << >>
    /\ call = NoCall
    /\ earlier = NoCall

\* the queryFn settles: apiFetch resolves with the rows of the server or rejects
QuerySettles ==
    /\ list.pc \in ListKinds
    /\ list.status = "pending"
    /\ \E response \in {NoResponse, Response(500, "Internal Server Error", FALSE, RUndefined),
                        Response(200, "OK", TRUE, RArr(<< >>))} :
        LET result == ApiFetch(response, SchemaArgOf(list.pc))
        IN  list' = IF result.kind = "resolved"
                    THEN [list EXCEPT !.status = "success",
                                      !.rows = RowsOf(list.pc, list.total, KeyOf(list)),
                                      !.seen = list.seen \cup {KeyOf(list)},
                                      !.event = "settle", !.from = list.page]
                    ELSE [list EXCEPT !.status = "error", !.rows = 0,
                                      !.event = "settle", !.from = list.page]
    /\ UNCHANGED <<api, builder, poll>>
    /\ UNCHANGED <<formVars, renderVars, callVars>>

\* a failed query is fetched again when the window regains focus
QueryRefetch ==
    /\ list.pc \in ListKinds
    /\ list.status = "error"
    /\ list' = [list EXCEPT !.status = "pending", !.event = "refetch", !.from = list.page]
    /\ UNCHANGED <<api, builder, poll>>
    /\ UNCHANGED <<formVars, renderVars, callVars>>

\* Previous.  ExecutionHistory: disabled={page === 0}, handlePrevPage.
\* Executions: shown with a non-empty result, disabled={page === 1},
\* setPage((p) => Math.max(1, p - 1)).
PreviousPage ==
    /\ list.pc \in ListKinds
    /\ IF list.pc = "ExecutionHistory"
       THEN /\ list.page # 0
            /\ list.page > 0
            /\ list' = Rerender(list, list.page - 1, list.statusFilter, list.startDate,
                                list.endDate, "prev")
       ELSE /\ list.status = "success" /\ list.rows > 0
            /\ list.page # 1
            /\ list' = Rerender(list, IF list.page - 1 > 1 THEN list.page - 1 ELSE 1,
                                list.statusFilter, list.startDate, list.endDate, "prev")
    /\ UNCHANGED <<api, builder, poll>>
    /\ UNCHANGED <<formVars, renderVars, callVars>>

\* Next.  ExecutionHistory: disabled={executions.length < pageSize},
\* handleNextPage.  Executions: shown with a non-empty result,
\* disabled={!executions || executions.length < limit}, setPage((p) => p + 1).
NextPage ==
    /\ list.pc \in ListKinds
    /\ IF list.pc = "ExecutionHistory"
       THEN /\ ~(DisplayedRows(list) < pageSize)
            /\ DisplayedRows(list) = pageSize
       ELSE /\ list.status = "success" /\ list.rows > 0
            /\ ~(list.rows < limit)
    /\ list' = Rerender(list, list.page + 1, list.statusFilter, list.startDate,
                        list.endDate, "next")
    /\ UNCHANGED <<api, builder, poll>>
    /\ UNCHANGED <<formVars, renderVars, callVars>>

\* onChange of the status select: setStatusFilter(e.target.value); setPage(first)
SetStatusFilter ==
    /\ list.pc \in ListKinds
    /\ \E v \in StatusFilters(list.pc) :
        /\ v # list.statusFilter
        /\ list' = Rerender(list, PageAfterFilter(list.pc, list.page), v, list.startDate,
                            list.endDate, "filter")
    /\ UNCHANGED <<api, builder, poll>>
    /\ UNCHANGED <<formVars, renderVars, callVars>>

\* onChange of the Start Date input: setStartDate(e.target.value); setPage(0)
SetStartDate ==
    /\ list.pc = "ExecutionHistory"
    /\ \E v \in DateInputs :
        /\ v # list.startDate
        /\ list' = Rerender(list, PageAfterFilter(list.pc, list.page), list.statusFilter, v,
                            list.endDate, "filter")
    /\ UNCHANGED <<api, builder, poll>>
    /\ UNCHANGED <<formVars, renderVars, callVars>>

\* onChange of the End Date input: setEndDate(e.target.value); setPage(0)
SetEndDate ==
    /\ list.pc = "ExecutionHistory"
    /\ \E v \in DateInputs :
        /\ v # list.endDate
        /\ list' = Rerender(list, PageAfterFilter(list.pc, list.page), list.statusFilter,
                            list.startDate, v, "filter")
    /\ UNCHANGED <<api, builder, poll>>
    /\ UNCHANGED <<formVars, renderVars, callVars>>

\* Clear Filters: setStatusFilter(''); setStartDate(''); setEndDate(''); setPage(0)
ClearFilters ==
    /\ list.pc = "ExecutionHistory"
    /\ list' = Rerender(list, PageAfterFilter(list.pc, list.page), "", "", "", "filter")
    /\ UNCHANGED <<api, builder, poll>>
    /\ UNCHANGED <<formVars, renderVars, callVars>>

NextList ==
    \/ QuerySettles \/ QueryRefetch \/ PreviousPage \/ NextPage
    \/ SetStatusFilter \/ SetStartDate \/ SetEndDate \/ ClearFilters

SpecList == InitList /\ [][NextList]_vars

\* C29: in both lists the page index never goes below the first page (0 in
\* ExecutionHistory, 1 in Executions), the requested offset is the number of
\* preceding pages times 20, a query completion leaves the page alone, and a
\* click on Previous or Next that takes effect moves the page by exactly one,
\* Next only from a displayed result of 20 rows.
C29_PagingSound ==
    /\ [](/\ list.page >= FirstPage(list.pc)
          /\ list.offset = (list.page - FirstPage(list.pc)) * 20)
    /\ [][/\ list'.event = "settle" => list'.page = list.page
          /\ list'.event = "prev" => list'.page = list.page - 1
          /\ list'.event = "next" => /\ list'.page = list.page + 1
                                     /\ DisplayedRows(list) = 20]_vars

\* C29 witness: on the Executions page two clicks on Next, each from a full
\* page, have led to page 3, requested with offset 40.
C29_Witness ==
    /\ list.pc = "Executions"
    /\ list.event = "next"
    /\ list.page = 3
    /\ list.offset = 40

\* C30: every filter change (status, start date, end date, Clear Filters)
\* sets the page index to the first page in the same state update.
C30_FilterResetsPage ==
    [][list'.event = "filter" => list'.page = FirstPage(list.pc)]_vars

\* C30 witness: a filter was changed on a later page, and the list is on its
\* first page, requesting offset 0.
C30_Witness ==
    /\ list.pc \in ListKinds
    /\ list.event = "filter"
    /\ list.from > FirstPage(list.pc)
    /\ list.page = FirstPage(list.pc)
    /\ list.offset = 0

====
